---- MODULE Spec2Model ----
(***************************************************************************)
(* Man Tab: the tab and session state engine of the popup (ManTabApp),     *)
(* the browser service it calls (getSavedSessions, saveSessions,           *)
(* restoreSession, closeTabs) and the validators of popup/utils.           *)
(*                                                                         *)
(* Strings are sequences of tokens.  A session name is a sequence of       *)
(* one-character tokens, so that trimming and the length limit are         *)
(* computed.  A URL is the sequence scheme, ":", "//", rest, so that the   *)
(* prefix tests of the code are computed on it.                            *)
(***************************************************************************)
EXTENDS Integers, Sequences, FiniteSets, TLC

VARIABLES
    browserTabs,        \* ids of the tabs open in the browser
    allTabs,            \* state.allTabs: sequence of tab ids
    filteredTabs,       \* state.filteredTabs: sequence of tab ids
    selectedTabs,       \* state.selectedTabs: set of tab ids
    closeConfirmation,  \* state.closeConfirmation
    searchInput,        \* value of the search-input element
    debouncePending,    \* pending timeouts of the debounced render
    actionsDisabled,    \* the action buttons are disabled (updateCounts)
    viewMode,           \* value of the view-mode select
    timeFilterSelect,   \* value of the time-filter select
    sortBySelect,       \* value of the sort-by select
    selectAllBox,       \* the select-all checkbox: checked, indeterminate
    groupBoxes,         \* the rendered group checkboxes, by domain
    timers,             \* pending setTimeout(resetCloseButtonState, 3000)
    refreshes,          \* loadInitialData calls awaiting their Promise.all
    closing,            \* handleCloseTabs calls awaiting closeTabs
    savedSessions,      \* state.savedSessions
    storage,            \* the value stored under the "sessions" key
    rs,                 \* the restoreSession call in progress
    browserLog,         \* window / tab requests restoreSession has issued
    restoredTabs,       \* the tabs those requests created, in creation order
    apiFailures,        \* storage.local.set calls that were rejected
    last                \* the last handler that ran, with what it saw and did

vars == <<browserTabs, allTabs, filteredTabs, selectedTabs, closeConfirmation,
          searchInput, debouncePending, actionsDisabled, viewMode,
          timeFilterSelect, sortBySelect, selectAllBox, groupBoxes, timers,
          refreshes,
          closing, savedSessions, storage, rs, browserLog, restoredTabs,
          apiFailures,
          last>>

selectVars == <<viewMode, timeFilterSelect, sortBySelect>>

renderVars == <<selectVars, selectAllBox, groupBoxes>>

tabVars == <<browserTabs, allTabs, filteredTabs, selectedTabs,
             closeConfirmation, searchInput, debouncePending, actionsDisabled,
             renderVars, timers, refreshes, closing>>

sessionVars == <<savedSessions, storage, apiFailures>>

restoreVars == <<rs, browserLog, restoredTabs>>

----------------------------------------------------------------------------
(* Bounds of the model *)

MaxTabs == 2
MaxTimers == 2
MaxInFlight == 1
MaxSessions == 2
MaxApiFailures == 1
MaxBatch == 2
MaxRestoreTabs == 3
MaxFilterTabs == 4
MaxSortTabs == 5
MaxNameInput == 2
MaxOverlap == 2

(* Program constants *)

MaxNameLen == 100

----------------------------------------------------------------------------
(* Strings *)

RECURSIVE TrimLeft(_)
TrimLeft(s) ==
    IF s # <<>> /\ Head(s) = " " THEN TrimLeft(Tail(s)) ELSE s

RECURSIVE TrimRight(_)
TrimRight(s) ==
    IF s # <<>> /\ s[Len(s)] = " " THEN TrimRight(SubSeq(s, 1, Len(s) - 1))
    ELSE s

Trim(s) == TrimRight(TrimLeft(s))

StartsWith(s, p) == Len(p) <= Len(s) /\ SubSeq(s, 1, Len(p)) = p

Includes(s, p) ==
    \E i \in 0..(Len(s) - Len(p)) : SubSeq(s, i + 1, i + Len(p)) = p

Upper(c) ==
    CASE c = "a" -> "A" [] c = "b" -> "B" [] c = "d" -> "D" [] c = "o" -> "O"
      [] c = "c" -> "C" [] c = "s" -> "S" [] c = "t" -> "T" [] c = "e" -> "E"
      [] c = "z" -> "Z" [] c = "www." -> "WWW."
      [] c = "a.test" -> "A.TEST" [] c = "b.test" -> "B.TEST"
      [] c = "https" -> "HTTPS" [] c = "http" -> "HTTP"
      [] c = "chrome" -> "CHROME" [] c = "settings" -> "SETTINGS"
      [] OTHER -> c

ToUpperCase(s) == [i \in 1..Len(s) |-> Upper(s[i])]

----------------------------------------------------------------------------
(* URLs.  new URL(u) succeeds on a string that begins with a scheme and a  *)
(* colon; for the special schemes (http, https, ...) it also needs a host, *)
(* with or without the two slashes.                                        *)

SchemeTokens ==
    {"http", "https", "chrome", "file", "about", "moz-extension", "data"}

SpecialSchemes == {"http", "https"}

HasScheme(u) == Len(u) >= 2 /\ u[1] \in SchemeTokens /\ u[2] = ":"

Scheme(u) == IF HasScheme(u) THEN u[1] ELSE ""

AfterScheme(u) ==
    IF Len(u) >= 3 /\ u[3] = "//" THEN SubSeq(u, 4, Len(u))
    ELSE SubSeq(u, 3, Len(u))

UrlParses(u) ==
    /\ HasScheme(u)
    /\ u[1] \in SpecialSchemes => AfterScheme(u) # <<>>

UrlA == <<"https", ":", "//", "a.test">>
UrlB == <<"http", ":", "//", "b.test">>
UrlChrome == <<"chrome", ":", "//", "settings">>
UrlNotAUrl == <<"not a url">>
UrlHttpsNoSlashes == <<"https", ":", "a.test">>
UrlHttpNoSlashes == <<"http", ":", "b.test">>
UrlEmpty == <<>>
UrlWwwA == <<"https", ":", "//", "www.", "a.test">>

validateUrl(urlString) ==
    IF urlString = <<>> THEN [isValid |-> FALSE, error |-> "URL is required"]
    ELSE IF Len(Trim(urlString)) = 0
         THEN [isValid |-> FALSE, error |-> "URL cannot be empty"]
    ELSE IF UrlParses(urlString) THEN [isValid |-> TRUE, error |-> ""]
    ELSE [isValid |-> FALSE, error |-> "Invalid URL format"]

----------------------------------------------------------------------------
(* Session names *)

InvalidChars == {"<", ">", ":", "\"", "/", "\\", "|", "?", "*"}

NameWork == <<"W", "o", "r", "k">>
NameTrip == <<"T", "r", "i", "p", " ", "P", "l", "a", "n", "n", "i", "n", "g">>
NameSlash == <<"m", "y", "/", "s", "e", "s", "s", "i", "o", "n">>
NamePadded == <<" ", "W", "o", "r", "k", " ">>
NameBlank == <<" ", " ">>
NameEmpty == <<>>
NameLong == [i \in 1..(MaxNameLen + 1) |-> "a"]

validateSessionName_untrimmedLength(name) ==
    LET trimmedName == Trim(name) IN
    IF name = <<>>
    THEN [isValid |-> FALSE, error |-> "Session name is required"]
    ELSE IF Len(trimmedName) = 0
         THEN [isValid |-> FALSE, error |-> "Session name cannot be empty"]
    ELSE IF Len(name) > MaxNameLen
         THEN [isValid |-> FALSE,
               error |-> "Session name too long (max 100 characters)"]
    ELSE IF \E i \in 1..Len(trimmedName) : trimmedName[i] \in InvalidChars
         THEN [isValid |-> FALSE,
               error |-> "Session name contains invalid characters"]
    ELSE [isValid |-> TRUE, error |-> ""]

validateSessionName(name) ==
    LET trimmedName == Trim(name) IN
    IF name = <<>>
    THEN [isValid |-> FALSE, error |-> "Session name is required"]
    ELSE IF Len(trimmedName) = 0
         THEN [isValid |-> FALSE, error |-> "Session name cannot be empty"]
    ELSE IF Len(trimmedName) > MaxNameLen
         THEN [isValid |-> FALSE,
               error |-> "Session name too long (max 100 characters)"]
    ELSE IF \E i \in 1..Len(trimmedName) : trimmedName[i] \in InvalidChars
         THEN [isValid |-> FALSE,
               error |-> "Session name contains invalid characters"]
    ELSE [isValid |-> TRUE, error |-> ""]

(* getCurrentTimestamp(): YYYY-MM-DD_HH-MM-SS of the clock, the seconds    *)
(* digit standing for the clock value d.                                   *)
Digit(d) == CASE d = 0 -> "0" [] d = 1 -> "1" [] d = 2 -> "2" [] OTHER -> "9"

getCurrentTimestamp(d) ==
    <<"2", "0", "2", "6", "-", "1", "1", "-", "0", "5", "_",
      "1", "2", "-", "0", "0", "-", "0", Digit(d)>>

----------------------------------------------------------------------------
(* Tabs of the browser: the fields of tab id that the engine reads *)

TabIds == 1..MaxTabs

TabUrl(id) ==
    CASE id = 1 -> UrlA
      [] id = 2 -> UrlChrome
      [] id = 3 -> UrlWwwA
      [] id = 4 -> UrlEmpty
      [] OTHER -> UrlA

TabTitle(id) ==
    CASE id = 1 -> <<"D", "o", "c", "s">>
      [] id = 2 -> <<>>
      [] id = 3 -> <<"T", "e", "s", "t">>
      [] OTHER -> <<"D", "o", "c", "s">>

TabLastAccessed(id) ==
    CASE id = 1 -> 10
      [] id = 2 -> 20
      [] OTHER -> 10

Range(seq) == {seq[i] : i \in 1..Len(seq)}

RECURSIVE SetToSeq(_)
SetToSeq(S) ==
    IF S = {} THEN <<>>
    ELSE LET m == CHOOSE x \in S : \A y \in S : x <= y
         IN <<m>> \o SetToSeq(S \ {m})

----------------------------------------------------------------------------
(* The filter and sort pipeline *)

SearchTerms == {<<>>, <<"d", "o", "c", "s">>, <<"z">>, <<"settings">>}

(* The TimeFilter thresholds, in units of 40 seconds *)
NONE == 0
ONE_HOUR == 90
ONE_DAY == 2160

TimeFilters == {NONE, ONE_HOUR, ONE_DAY}

SortOrders == {"lastAccessed", "title", "url"}

(* getFilterOptions: the search term is the trimmed, uppercased input; the *)
(* time filter and the sort order are the values of their selects.         *)
getFilterOptions ==
    [timeFilter |-> timeFilterSelect,
     searchTerm |-> ToUpperCase(Trim(searchInput)),
     sortBy |-> sortBySelect]

KeepsTab_strictAge(id, filters, now) ==
    /\ ~(filters.timeFilter > 0
            /\ now - TabLastAccessed(id) <= filters.timeFilter)
    /\ filters.searchTerm # <<>> =>
          \/ Includes(ToUpperCase(TabTitle(id)), filters.searchTerm)
          \/ Includes(ToUpperCase(TabUrl(id)), filters.searchTerm)

KeepsTab(id, filters, now) ==
    /\ ~(filters.timeFilter > 0
            /\ now - TabLastAccessed(id) < filters.timeFilter)
    /\ filters.searchTerm # <<>> =>
          \/ Includes(ToUpperCase(TabTitle(id)), filters.searchTerm)
          \/ Includes(ToUpperCase(TabUrl(id)), filters.searchTerm)

(* String.prototype.localeCompare over the titles and URLs of the tabs:    *)
(* the sign of the difference of their places in the collation order       *)
(* "" < chrome://settings < Docs < http://b.test < https://a.test <        *)
(* https://www.a.test < Test.                                              *)
LocaleRank(s) ==
    CASE s = <<>> -> 0
      [] s = UrlChrome -> 1
      [] s = <<"D", "o", "c", "s">> -> 2
      [] s = UrlB -> 3
      [] s = UrlA -> 4
      [] s = UrlWwwA -> 5
      [] OTHER -> 6

localeCompare(a, b) == LocaleRank(a) - LocaleRank(b)

(* The comparator applyFilters hands to sort for each sort order *)
Compare(a, b, sortBy) ==
    CASE sortBy = "title" ->
             localeCompare(
                 IF TabTitle(a) # <<>> THEN TabTitle(a) ELSE TabUrl(a),
                 IF TabTitle(b) # <<>> THEN TabTitle(b) ELSE TabUrl(b))
      [] sortBy = "url" -> localeCompare(TabUrl(a), TabUrl(b))
      [] OTHER -> TabLastAccessed(b) - TabLastAccessed(a)

RECURSIVE InsertSorted_tiesFirst(_, _, _)
InsertSorted_tiesFirst(sorted, id, sortBy) ==
    IF sorted = <<>> THEN <<id>>
    ELSE IF Compare(id, Head(sorted), sortBy) <= 0
         THEN <<id>> \o sorted
         ELSE <<Head(sorted)>>
                  \o InsertSorted_tiesFirst(Tail(sorted), id, sortBy)

(* Array.prototype.sort is stable: an element goes after the elements that *)
(* do not compare greater than it.                                         *)
RECURSIVE InsertSorted(_, _, _)
InsertSorted(sorted, id, sortBy) ==
    IF sorted = <<>> THEN <<id>>
    ELSE IF Compare(id, Head(sorted), sortBy) < 0
         THEN <<id>> \o sorted
         ELSE <<Head(sorted)>> \o InsertSorted(Tail(sorted), id, sortBy)

RECURSIVE SortTabs(_, _)
SortTabs(tabs, sortBy) ==
    IF tabs = <<>> THEN <<>>
    ELSE InsertSorted(SortTabs(SubSeq(tabs, 1, Len(tabs) - 1), sortBy),
                      tabs[Len(tabs)], sortBy)

applyFilters(tabs, filters, now) ==
    SortTabs(SelectSeq(tabs, LAMBDA id : KeepsTab(id, filters, now)),
             filters.sortBy)

(* Date.now() at the render, in the units of the thresholds *)
Times == {100}

----------------------------------------------------------------------------
(* Domain groups and the tri-state checkboxes *)

(* URL.hostname of a URL that parses: none for a URL without "//" whose    *)
(* scheme is not special, and none before a path that follows "//".        *)
Hostname(u) ==
    LET rest == AfterScheme(u) IN
    IF ~(u[1] \in SpecialSchemes \/ (Len(u) >= 3 /\ u[3] = "//")) THEN <<>>
    ELSE IF rest = <<>> \/ Head(rest) = "/" THEN <<>>
    ELSE IF Head(rest) = "www." /\ Len(rest) > 1 /\ rest[2] # "/"
         THEN <<"www.", rest[2]>>
    ELSE <<Head(rest)>>

(* hostname.replace(/^www\./, "") *)
WithoutWww(hostname) ==
    IF hostname = <<>> THEN ""
    ELSE IF Head(hostname) # "www." THEN Head(hostname)
    ELSE IF Len(hostname) > 1 THEN hostname[2]
    ELSE ""

getDomain_hostnameFirst(urlString) ==
    IF urlString = <<>> THEN "Unknown"
    ELSE IF UrlParses(urlString) /\ Hostname(urlString) # <<>>
         THEN WithoutWww(Hostname(urlString))
    ELSE IF \/ StartsWith(urlString, <<"chrome", ":", "//">>)
            \/ StartsWith(urlString, <<"moz-extension", ":", "//">>)
         THEN "Browser Internal"
    ELSE IF StartsWith(urlString, <<"file", ":", "//">>) THEN "Local Files"
    ELSE IF StartsWith(urlString, <<"about", ":">>) THEN "Browser Pages"
    ELSE IF UrlParses(urlString) THEN WithoutWww(Hostname(urlString))
    ELSE "Other"

(* getDomain: the group a URL is shown under *)
getDomain(urlString) ==
    IF urlString = <<>> THEN "Unknown"
    ELSE IF \/ StartsWith(urlString, <<"chrome", ":", "//">>)
            \/ StartsWith(urlString, <<"moz-extension", ":", "//">>)
         THEN "Browser Internal"
    ELSE IF StartsWith(urlString, <<"file", ":", "//">>) THEN "Local Files"
    ELSE IF StartsWith(urlString, <<"about", ":">>) THEN "Browser Pages"
    ELSE IF UrlParses(urlString) THEN WithoutWww(Hostname(urlString))
    ELSE "Other"

(* The URLs handed to getDomain: the empty string of a tab without URL,    *)
(* the URLs as the browser serializes them, and strings that are no URL.   *)
DomainInputs ==
    LET hosts == {<<"a.test">>, <<"www.", "a.test">>, <<"b.test">>,
                  <<"www.", "b.test">>, <<"c.test">>, <<"settings">>,
                  <<"www.">>}
        paths == {<<>>, <<"/">>, <<"/", "page">>}
    IN {<<>>, <<"not a url">>, <<"www.", "a.test">>, <<"//", "a.test">>,
        <<":", "//", "a.test">>}
       \cup {<<scheme, ":", "//">> \o host \o path :
                scheme \in {"http", "https", "chrome", "moz-extension"},
                host \in hosts, path \in paths}
       \cup {<<"file", ":", "//">> \o host \o path :
                host \in hosts \cup {<<>>}, path \in paths}
       \cup {<<scheme, ":", page>> :
                scheme \in {"about", "data"},
                page \in {"blank", "newtab", "text/html"}}

(* groupTabsByDomain: the tabs that have a URL, by domain, in their order *)
groupTabsByDomain(tabs) ==
    LET shown == SelectSeq(tabs, LAMBDA id : TabUrl(id) # <<>>) IN
    [domain \in {getDomain(TabUrl(shown[k])) : k \in 1..Len(shown)} |->
        SelectSeq(shown, LAMBDA id : getDomain(TabUrl(id)) = domain)]

Unchecked == [checked |-> FALSE, indeterminate |-> FALSE]

updateSelectAllCheckboxState_noEmptyCase(filtered, selected) ==
    LET selectedCount ==
            Len(SelectSeq(filtered, LAMBDA id : id \in selected))
    IN [checked |-> selectedCount = Len(filtered),
        indeterminate |-> selectedCount > 0 /\ selectedCount < Len(filtered)]

updateSelectAllCheckboxState_anySelected(filtered, selected) ==
    LET selectedCount ==
            Len(SelectSeq(filtered, LAMBDA id : id \in selected))
    IN [checked |-> filtered # <<>> /\ selectedCount = Len(filtered),
        indeterminate |-> selectedCount > 0]

(* updateSelectAllCheckboxState: the state it gives the select-all box *)
updateSelectAllCheckboxState(filtered, selected) ==
    IF Len(filtered) = 0 THEN Unchecked
    ELSE LET selectedCount ==
                 Len(SelectSeq(filtered, LAMBDA id : id \in selected))
         IN [checked |-> selectedCount = Len(filtered),
             indeterminate |->
                 selectedCount > 0 /\ selectedCount < Len(filtered)]

(* The state createGroupHeader and updateGroupCheckboxStates give the      *)
(* checkbox of a group                                                     *)
groupCheckboxState(tabsInGroup, selected) ==
    LET selectedCount ==
            Len(SelectSeq(tabsInGroup, LAMBDA id : id \in selected))
        totalCount == Len(tabsInGroup)
    IN [checked |-> selectedCount = totalCount /\ totalCount > 0,
        indeterminate |-> selectedCount > 0 /\ selectedCount < totalCount]

(* The keys of the object groupTabsByDomain builds, in insertion order *)
DomainsInOrder(tabs) ==
    LET shown == SelectSeq(tabs, LAMBDA id : TabUrl(id) # <<>>)
        domainAt(k) == getDomain(TabUrl(shown[k]))
        first == SelectSeq([k \in 1..Len(shown) |-> k],
                     LAMBDA k : \A j \in 1..(k - 1) : domainAt(j) # domainAt(k))
    IN [i \in 1..Len(first) |-> domainAt(first[i])]

(* The stable sort of the groups by tab count, descending *)
RECURSIVE InsertGroup(_, _)
InsertGroup(sorted, group) ==
    IF sorted = <<>> THEN <<group>>
    ELSE IF Len(Head(sorted).tabs) - Len(group.tabs) < 0
         THEN <<group>> \o sorted
         ELSE <<Head(sorted)>> \o InsertGroup(Tail(sorted), group)

RECURSIVE SortGroups(_)
SortGroups(groups) ==
    IF groups = <<>> THEN <<>>
    ELSE InsertGroup(SortGroups(SubSeq(groups, 1, Len(groups) - 1)),
                     groups[Len(groups)])

(* renderGroupedTabList: the groups it draws, each with its tabs, in the   *)
(* order it draws them                                                     *)
renderGroupedTabList(tabsToRender) ==
    IF tabsToRender = <<>> THEN <<>>
    ELSE LET groupedTabs == groupTabsByDomain(tabsToRender)
             keys == DomainsInOrder(tabsToRender)
             sortedGroups ==
                 SortGroups([i \in 1..Len(keys) |->
                     [domain |-> keys[i], tabs |-> groupedTabs[keys[i]]]])
         IN SelectSeq(sortedGroups,
                      LAMBDA g : g.domain # "" /\ g.tabs # <<>>)

(* renderGroupedTabList draws one checkbox per group; renderTabList none *)
renderGroupBoxes(mode, filtered, selected) ==
    IF mode = "grouped" /\ filtered # <<>>
    THEN LET groupedTabs == groupTabsByDomain(filtered) IN
         [domain \in DOMAIN groupedTabs |->
             groupCheckboxState(groupedTabs[domain], selected)]
    ELSE <<>>

----------------------------------------------------------------------------
(* History: the handler that ran last, what it was given and what it saw *)

NoOp ==
    [op |-> "none", ok |-> TRUE, error |-> "", armed |-> FALSE,
     issued |-> {}, name |-> <<>>, index |-> 0, incoming |-> <<>>,
     violations |-> <<>>, saved |-> FALSE, checked |-> FALSE,
     domain |-> "", captures |-> <<>>, archive |-> <<>>,
     result |-> <<>>, bookmarks |-> <<>>, reported |-> 0]

----------------------------------------------------------------------------
(* The popup state after the constructor; the browser has its tabs and the *)
(* storage holds what an earlier run wrote.                                *)

SessionTabOf(id) ==
    [url |-> TabUrl(id),
     title |-> IF TabTitle(id) # <<>> THEN TabTitle(id) ELSE TabUrl(id)]

StoredSession ==
    [name |-> NameTrip, tabs |-> <<SessionTabOf(1)>>, date |-> 0,
     tabsIsArray |-> TRUE]

InitialStorage == {<<>>, <<StoredSession>>}

InitTabs ==
    /\ browserTabs = TabIds
    /\ allTabs = <<>>
    /\ filteredTabs = <<>>
    /\ selectedTabs = {}
    /\ closeConfirmation = FALSE
    /\ searchInput = <<>>
    /\ debouncePending = 0
    /\ actionsDisabled \in BOOLEAN
    /\ viewMode = "list"
    /\ timeFilterSelect = NONE
    /\ sortBySelect = "lastAccessed"
    /\ selectAllBox = Unchecked
    /\ groupBoxes = <<>>
    /\ timers = 0
    /\ refreshes = <<>>
    /\ closing = <<>>

(* No restoreSession call has been made *)
IdleRestore ==
    [pc |-> "idle", valid |-> <<>>, invalid |-> <<>>, i |-> 0,
     window |-> FALSE, tab |-> 0, error |-> "", message |-> ""]

InitRestore ==
    /\ rs = IdleRestore
    /\ browserLog = <<>>
    /\ restoredTabs = <<>>

Init ==
    /\ InitTabs
    /\ InitRestore
    /\ savedSessions = <<>>
    /\ storage = <<>>
    /\ apiFailures = 0
    /\ last = NoOp

----------------------------------------------------------------------------
(* Storage reads *)

(* A stored value that is null has no property and throws when one is read *)
Null == [null |-> TRUE]

IsNull(v) == "null" \in DOMAIN v

(* The check of one tab in the filter of getSavedSessions; a property of   *)
(* another type than the one asked for is a property the value lacks.      *)
TabShapeOk(t) ==
    /\ "url" \in DOMAIN t
    /\ "title" \in DOMAIN t
    /\ validateUrl(t.url).isValid

SessionShapeOk(s) ==
    /\ ~IsNull(s)
    /\ "name" \in DOMAIN s
    /\ s.tabsIsArray
    /\ "date" \in DOMAIN s
    /\ \A i \in 1..Len(s.tabs) : ~IsNull(s.tabs[i]) /\ TabShapeOk(s.tabs[i])

(* The filter callback throws a TypeError: tabs.every reaches a null tab,  *)
(* every tab before it having passed.                                      *)
SessionCheckThrows(s) ==
    /\ ~IsNull(s)
    /\ "name" \in DOMAIN s
    /\ s.tabsIsArray
    /\ "date" \in DOMAIN s
    /\ \E i \in 1..Len(s.tabs) :
          /\ IsNull(s.tabs[i])
          /\ \A j \in 1..(i - 1) : TabShapeOk(s.tabs[j])

getSavedSessions(stored) == SelectSeq(stored, SessionShapeOk)

(* A call of getSavedSessions on the value found under "sessions": what it *)
(* returns, or the error it throws                                         *)
getSavedSessionsCall(data) ==
    LET record == [NoOp EXCEPT !.op = "getSavedSessions", !.incoming = data]
    IN IF ~data.isArray THEN record
       ELSE IF \E k \in 1..Len(data.sessions) :
                  /\ SessionCheckThrows(data.sessions[k])
                  /\ \A j \in 1..(k - 1) :
                        ~SessionCheckThrows(data.sessions[j])
       THEN [record EXCEPT !.ok = FALSE,
                           !.error = "Failed to retrieve sessions"]
       ELSE [record EXCEPT !.result = getSavedSessions(data.sessions)]

(* The names handed to validateSessionName: every short string over the    *)
(* unsafe characters, a letter and the blank; the two names of the         *)
(* examples; and names around the length limit, bare and padded.           *)
NameInputs ==
    LET chars == InvalidChars \cup {"a", " "}
        long(n) == [i \in 1..n |-> "a"]
    IN UNION {[1..n -> chars] : n \in 0..MaxNameInput}
       \cup {NameTrip, NameSlash}
       \cup UNION {{long(n), <<" ">> \o long(n), long(n) \o <<" ">>} :
                      n \in (MaxNameLen - 1)..(MaxNameLen + 1)}

(* A name is validated *)
ValidateName ==
    \E name \in NameInputs :
        /\ last' = [NoOp EXCEPT !.op = "validateSessionName",
                                !.name = name,
                                !.ok = validateSessionName(name).isValid,
                                !.error = validateSessionName(name).error]
        /\ UNCHANGED <<tabVars, sessionVars, restoreVars>>

(* The domain of a URL is asked for *)
ClassifyUrl ==
    \E urlString \in DomainInputs :
        /\ last' = [NoOp EXCEPT !.op = "getDomain",
                                !.incoming = urlString,
                                !.domain = getDomain(urlString)]
        /\ UNCHANGED <<tabVars, sessionVars, restoreVars>>

(* Records that may be found in the store *)
StoredRecords ==
    LET tabA == SessionTabOf(1)
        badUrl == [url |-> UrlNotAUrl, title |-> NameWork]
        session(name, tabs) ==
            [name |-> name, tabs |-> tabs, date |-> 0, tabsIsArray |-> TRUE]
    IN {StoredSession,
        session(NameWork, <<tabA, SessionTabOf(2)>>),
        session(NameWork, <<>>),
        Null,
        [tabs |-> <<tabA>>, date |-> 0, tabsIsArray |-> TRUE],
        [name |-> NameWork, tabs |-> <<>>, date |-> 0, tabsIsArray |-> FALSE],
        [name |-> NameWork, tabs |-> <<tabA>>, tabsIsArray |-> TRUE],
        session(NameWork, <<badUrl>>),
        session(NameWork, <<[url |-> UrlA]>>),
        session(NameWork, <<[title |-> NameWork]>>),
        session(NameWork, <<Null>>),
        session(NameWork, <<tabA, Null>>),
        session(NameWork, <<badUrl, Null>>)}

StoredValues ==
    {[isArray |-> FALSE, sessions |-> <<>>]} \cup
    {[isArray |-> TRUE, sessions |-> list] :
        list \in UNION {[1..n -> StoredRecords] : n \in 0..MaxSessions}}

(* The session store is read *)
ReadSessions ==
    \E data \in StoredValues :
        /\ last' = getSavedSessionsCall(data)
        /\ UNCHANGED <<tabVars, sessionVars, restoreVars>>

(* tabs.query: the open tabs in tab-strip order *)
getAllTabs(open) == SetToSeq(open)

----------------------------------------------------------------------------
(* Tab list, selection and the close confirmation *)

(* updateCounts: the action buttons are enabled iff something is selected *)
ButtonsDisabled(selected) == selected = {}

(* Ids the popup holds anywhere.  The browser never gives the id of a      *)
(* closed tab to a new tab, so a tab that opens has an id outside this set. *)
KnownIds ==
    Range(allTabs) \cup selectedTabs
        \cup UNION {Range(refreshes[k].tabs) : k \in 1..Len(refreshes)}
        \cup UNION {closing[k] : k \in 1..Len(closing)}

(* A tab was closed or opened in the browser, outside the popup *)
BrowserTabChange ==
    /\ \E id \in TabIds :
          \/ id \in browserTabs /\ browserTabs' = browserTabs \ {id}
          \/ id \notin browserTabs /\ id \notin KnownIds
                /\ browserTabs' = browserTabs \cup {id}
    /\ last' = [NoOp EXCEPT !.op = "browserTabChange"]
    /\ UNCHANGED <<allTabs, filteredTabs, selectedTabs, closeConfirmation,
                   searchInput, debouncePending, actionsDisabled, renderVars,
                   timers, refreshes, closing, sessionVars, restoreVars>>

(* loadInitialData up to its await: both reads are issued *)
IssueReads ==
    /\ refreshes' = Append(refreshes,
                           [tabs |-> getAllTabs(browserTabs),
                            sessions |-> getSavedSessions(storage),
                            from |-> "event"])
    /\ last' = [NoOp EXCEPT !.op = "loadInitialDataStart"]
    /\ UNCHANGED <<browserTabs, allTabs, filteredTabs, selectedTabs,
                   closeConfirmation, searchInput, debouncePending,
                   actionsDisabled, renderVars, timers, closing, sessionVars,
                   restoreVars>>

(* A tabsChanged message when no call is waiting for the browser *)
LoadInitialDataStart ==
    /\ Len(refreshes) + Len(closing) < MaxInFlight
    /\ IssueReads

(* A tabsChanged message while loadInitialData calls are still waiting *)
LoadInitialDataStartOverlapping ==
    /\ Len(refreshes) + Len(closing) < MaxOverlap
    /\ IssueReads

RemoveAt_head(seq, k) == Tail(seq)

RemoveAt(seq, k) == SubSeq(seq, 1, k - 1) \o SubSeq(seq, k + 1, Len(seq))

SelectionAfterRender_visibleOnly(selected, filtered) ==
    selected \cap Range(filtered)

(* applyFiltersAndRender hands state.selectedTabs to the renderers, which  *)
(* read it: the selection after a render is the selection before it.       *)
SelectionAfterRender(selected, filtered) == selected

CaughtLoad_tabsInstalled(current, read) == read

(* The catch of loadInitialData: Promise.all rejected, so the assignments  *)
(* that follow the await were not reached and the collection is the        *)
(* current one, not the one read.                                          *)
CaughtLoad(current, read) == current

(* loadInitialData after its await: the snapshot is installed, or the      *)
(* failure of either read is caught and shown.                             *)
LoadInitialDataComplete ==
    \E k \in 1..Len(refreshes), readsOk \in BOOLEAN, now \in Times :
        LET r == refreshes[k] IN
        /\ refreshes' = RemoveAt(refreshes, k)
        /\ IF readsOk
           THEN /\ allTabs' = r.tabs
                /\ savedSessions' = r.sessions
                /\ filteredTabs' = applyFilters(r.tabs, getFilterOptions, now)
                /\ selectedTabs' =
                      SelectionAfterRender(selectedTabs, filteredTabs')
                /\ closeConfirmation' = FALSE
                /\ actionsDisabled' = ButtonsDisabled(selectedTabs')
                /\ selectAllBox' =
                      updateSelectAllCheckboxState(filteredTabs', selectedTabs')
                /\ groupBoxes' =
                      renderGroupBoxes(viewMode, filteredTabs', selectedTabs')
           ELSE /\ allTabs' = CaughtLoad(allTabs, r.tabs)
                /\ UNCHANGED <<savedSessions, selectedTabs,
                               filteredTabs, actionsDisabled, selectAllBox,
                               groupBoxes>>
                /\ closeConfirmation' =
                      IF r.from = "close" THEN FALSE ELSE closeConfirmation
        /\ last' = [NoOp EXCEPT !.op = "loadInitialData", !.ok = readsOk,
                                !.index = k]
        /\ UNCHANGED <<browserTabs, searchInput, debouncePending, selectVars,
                       timers, closing, storage, apiFailures, restoreVars>>

resetCloseButtonState_noop(confirmation) == confirmation

(* resetCloseButtonState: state.closeConfirmation after it *)
resetCloseButtonState(confirmation) == FALSE

(* handleTabSelectionChange: the checkbox of a rendered tab was toggled *)
HandleTabSelectionChange ==
    \E id \in Range(filteredTabs), checked \in BOOLEAN :
        /\ viewMode = "grouped" => TabUrl(id) # <<>>
        /\ checked = (id \notin selectedTabs)
        /\ selectedTabs' = IF checked THEN selectedTabs \cup {id}
                           ELSE selectedTabs \ {id}
        /\ actionsDisabled' = ButtonsDisabled(selectedTabs')
        /\ selectAllBox' =
              updateSelectAllCheckboxState(filteredTabs, selectedTabs')
        /\ closeConfirmation' = resetCloseButtonState(closeConfirmation)
        /\ last' = [NoOp EXCEPT !.op = "handleTabSelectionChange",
                                !.index = id, !.checked = checked]
        /\ UNCHANGED <<browserTabs, allTabs, filteredTabs, searchInput,
                       debouncePending, selectVars, groupBoxes, timers,
                       refreshes, closing, sessionVars, restoreVars>>

ToggleAll_wholeCollection(selected, tabs, checked) ==
    IF checked THEN selected \cup Range(allTabs)
    ELSE selected \ Range(allTabs)

(* The forEach of handleSelectAll and handleGroupSelectionChange: each tab *)
(* of the list is added to the selection, or each is removed from it.      *)
ToggleAll(selected, tabs, checked) ==
    IF checked THEN selected \cup Range(tabs) ELSE selected \ Range(tabs)

(* handleSelectAll: every visible tab is added to or removed from the      *)
(* selection, then the list is filtered and rendered again.                *)
HandleSelectAll ==
    \E checked \in BOOLEAN, now \in Times :
        /\ checked = ~selectAllBox.checked
        /\ filteredTabs' = applyFilters(allTabs, getFilterOptions, now)
        /\ selectedTabs' =
              SelectionAfterRender(
                  ToggleAll(selectedTabs, filteredTabs, checked),
                  filteredTabs')
        /\ closeConfirmation' = FALSE
        /\ actionsDisabled' = ButtonsDisabled(selectedTabs')
        /\ selectAllBox' =
              updateSelectAllCheckboxState(filteredTabs', selectedTabs')
        /\ groupBoxes' =
              renderGroupBoxes(viewMode, filteredTabs', selectedTabs')
        /\ last' = [NoOp EXCEPT !.op = "handleSelectAll",
                                !.checked = checked]
        /\ UNCHANGED <<browserTabs, allTabs, searchInput, debouncePending,
                       selectVars, timers, refreshes, closing, sessionVars,
                       restoreVars>>

TabsInGroup_liveCollection(filtered, domain) ==
    SelectSeq(allTabs, LAMBDA id : getDomain(TabUrl(id)) = domain)

(* The tabs handleGroupSelectionChange takes for the group of a domain *)
TabsInGroup(filtered, domain) ==
    SelectSeq(filtered, LAMBDA id : getDomain(TabUrl(id)) = domain)

(* handleGroupSelectionChange: the checkbox of a rendered group was        *)
(* toggled.  The tabs of the group are looked up again in filteredTabs.    *)
HandleGroupSelectionChange ==
    \E domain \in DOMAIN groupBoxes, checked \in BOOLEAN, now \in Times :
        LET tabsInGroup == TabsInGroup(filteredTabs, domain) IN
        /\ domain # ""
        /\ checked = ~groupBoxes[domain].checked
        /\ filteredTabs' = applyFilters(allTabs, getFilterOptions, now)
        /\ selectedTabs' =
              SelectionAfterRender(
                  ToggleAll(selectedTabs, tabsInGroup, checked),
                  filteredTabs')
        /\ closeConfirmation' = FALSE
        /\ actionsDisabled' = ButtonsDisabled(selectedTabs')
        /\ selectAllBox' =
              updateSelectAllCheckboxState(filteredTabs', selectedTabs')
        /\ groupBoxes' =
              renderGroupBoxes(viewMode, filteredTabs', selectedTabs')
        /\ last' = [NoOp EXCEPT !.op = "handleGroupSelectionChange",
                                !.checked = checked, !.domain = domain]
        /\ UNCHANGED <<browserTabs, allTabs, searchInput, debouncePending,
                       selectVars, timers, refreshes, closing, sessionVars,
                       restoreVars>>

(* The view-mode select was changed: applyFiltersAndRender *)
ViewModeChange ==
    \E mode \in {"list", "grouped"}, now \in Times :
        /\ mode # viewMode
        /\ viewMode' = mode
        /\ filteredTabs' = applyFilters(allTabs, getFilterOptions, now)
        /\ selectedTabs' = SelectionAfterRender(selectedTabs, filteredTabs')
        /\ closeConfirmation' = FALSE
        /\ actionsDisabled' = ButtonsDisabled(selectedTabs')
        /\ selectAllBox' =
              updateSelectAllCheckboxState(filteredTabs', selectedTabs')
        /\ groupBoxes' = renderGroupBoxes(mode, filteredTabs', selectedTabs')
        /\ last' = [NoOp EXCEPT !.op = "applyFiltersAndRender"]
        /\ UNCHANGED <<browserTabs, allTabs, searchInput, debouncePending,
                       timeFilterSelect, sortBySelect, timers, refreshes,
                       closing, sessionVars, restoreVars>>

(* What applyFilters leaves in the array it was given: filter returns a    *)
(* new array, and it is that array which is sorted.                        *)
CollectionAfterApply_sortedInPlace(tabs, filters) ==
    SortTabs(tabs, filters.sortBy)

CollectionAfterApply(tabs, filters) == tabs

(* The time-filter select was changed: applyFiltersAndRender *)
TimeFilterChange ==
    \E value \in TimeFilters, now \in Times :
        /\ value # timeFilterSelect
        /\ timeFilterSelect' = value
        /\ LET filters == [getFilterOptions EXCEPT !.timeFilter = value] IN
              /\ filteredTabs' = applyFilters(allTabs, filters, now)
              /\ allTabs' = CollectionAfterApply(allTabs, filters)
        /\ selectedTabs' = SelectionAfterRender(selectedTabs, filteredTabs')
        /\ closeConfirmation' = FALSE
        /\ actionsDisabled' = ButtonsDisabled(selectedTabs')
        /\ selectAllBox' =
              updateSelectAllCheckboxState(filteredTabs', selectedTabs')
        /\ groupBoxes' =
              renderGroupBoxes(viewMode, filteredTabs', selectedTabs')
        /\ last' = [NoOp EXCEPT !.op = "applyFiltersAndRender"]
        /\ UNCHANGED <<browserTabs, searchInput, debouncePending, viewMode,
                       sortBySelect, timers, refreshes, closing, sessionVars,
                       restoreVars>>

(* The sort-by select was changed: applyFiltersAndRender *)
SortByChange ==
    \E value \in SortOrders, now \in Times :
        /\ value # sortBySelect
        /\ sortBySelect' = value
        /\ LET filters == [getFilterOptions EXCEPT !.sortBy = value] IN
              /\ filteredTabs' = applyFilters(allTabs, filters, now)
              /\ allTabs' = CollectionAfterApply(allTabs, filters)
        /\ selectedTabs' = SelectionAfterRender(selectedTabs, filteredTabs')
        /\ closeConfirmation' = FALSE
        /\ actionsDisabled' = ButtonsDisabled(selectedTabs')
        /\ selectAllBox' =
              updateSelectAllCheckboxState(filteredTabs', selectedTabs')
        /\ groupBoxes' =
              renderGroupBoxes(viewMode, filteredTabs', selectedTabs')
        /\ last' = [NoOp EXCEPT !.op = "applyFiltersAndRender"]
        /\ UNCHANGED <<browserTabs, searchInput, debouncePending, viewMode,
                       timeFilterSelect, timers, refreshes, closing,
                       sessionVars, restoreVars>>

(* The Escape key: the selection is cleared and the list rendered again *)
HandleEscape ==
    \E now \in Times :
        /\ selectedTabs # {}
        /\ filteredTabs' = applyFilters(allTabs, getFilterOptions, now)
        /\ selectedTabs' = SelectionAfterRender({}, filteredTabs')
        /\ closeConfirmation' = FALSE
        /\ actionsDisabled' = TRUE
        /\ selectAllBox' =
              updateSelectAllCheckboxState(filteredTabs', selectedTabs')
        /\ groupBoxes' =
              renderGroupBoxes(viewMode, filteredTabs', selectedTabs')
        /\ last' = [NoOp EXCEPT !.op = "handleEscape"]
        /\ UNCHANGED <<browserTabs, allTabs, searchInput, debouncePending,
                       selectVars, timers, refreshes, closing, sessionVars,
                       restoreVars>>

debounce_noClearTimeout(pending) == pending + 1

(* The function debounce returns: clearTimeout(timeoutId) cancels the      *)
(* timeout an earlier call left pending, setTimeout schedules one.         *)
debounce(pending) == 1

(* An edit of the search box: the input listener calls debouncedRender.    *)
(* The record tells whether the call found a timeout pending, that is,     *)
(* whether the edit came within the delay of the edit before it.           *)
SearchEdit ==
    \E v \in SearchTerms :
        /\ v # searchInput
        /\ searchInput' = v
        /\ debouncePending' = debounce(debouncePending)
        /\ last' = [NoOp EXCEPT !.op = "searchEdit",
                                !.checked = debouncePending > 0]
        /\ UNCHANGED <<browserTabs, allTabs, filteredTabs, selectedTabs,
                       closeConfirmation, actionsDisabled, renderVars, timers,
                       refreshes, closing, sessionVars, restoreVars>>

(* The delay of a pending timeout elapsed: applyFiltersAndRender.  The     *)
(* record tells whether the last edit had cancelled a timeout.             *)
DebouncedRender ==
    \E now \in Times :
        /\ debouncePending > 0
        /\ debouncePending' = debouncePending - 1
        /\ filteredTabs' = applyFilters(allTabs, getFilterOptions, now)
        /\ selectedTabs' = SelectionAfterRender(selectedTabs, filteredTabs')
        /\ closeConfirmation' = FALSE
        /\ actionsDisabled' = ButtonsDisabled(selectedTabs')
        /\ selectAllBox' =
              updateSelectAllCheckboxState(filteredTabs', selectedTabs')
        /\ groupBoxes' =
              renderGroupBoxes(viewMode, filteredTabs', selectedTabs')
        /\ allTabs' = CollectionAfterApply(allTabs, getFilterOptions)
        /\ last' = [NoOp EXCEPT !.op = "debouncedRender",
                                !.checked = (last.op = "searchEdit"
                                                /\ last.checked)]
        /\ UNCHANGED <<browserTabs, searchInput, selectVars,
                       timers, refreshes, closing, sessionVars, restoreVars>>

CloseMustArm_never(confirmation) == FALSE

(* handleCloseTabs arms the confirmation unless it is armed already *)
CloseMustArm(confirmation) == ~confirmation

(* closeTabs: the ids handed to tabs.remove *)
closeTabsRequest(tabIds) == {id \in tabIds : id >= 0}

(* handleCloseTabs up to its await, with at most limit calls of the popup  *)
(* waiting for the browser afterwards                                      *)
CloseClick(limit) ==
    /\ IF CloseMustArm(closeConfirmation)
       THEN /\ timers < MaxTimers
            /\ closeConfirmation' = TRUE
            /\ timers' = timers + 1
            /\ closing' = closing
            /\ last' = [NoOp EXCEPT !.op = "handleCloseTabs",
                                    !.armed = closeConfirmation]
       ELSE IF selectedTabs = {}
       THEN /\ UNCHANGED <<closeConfirmation, timers, closing>>
            /\ last' = [NoOp EXCEPT !.op = "handleCloseTabs",
                                    !.armed = closeConfirmation]
       ELSE /\ Len(refreshes) + Len(closing) < limit
            /\ closing' = Append(closing, closeTabsRequest(selectedTabs))
            /\ UNCHANGED <<closeConfirmation, timers>>
            /\ last' = [NoOp EXCEPT !.op = "handleCloseTabs",
                                    !.armed = closeConfirmation,
                                    !.issued = closeTabsRequest(selectedTabs)]
    /\ UNCHANGED <<browserTabs, allTabs, filteredTabs, selectedTabs,
                   searchInput, debouncePending, actionsDisabled, renderVars,
                   refreshes, sessionVars, restoreVars>>

(* The close button or the Delete key.  The button is clickable while the  *)
(* action buttons are enabled; the Delete key asks for a selection.        *)
HandleCloseTabs ==
    /\ ~actionsDisabled \/ selectedTabs # {}
    /\ CloseClick(MaxInFlight)

(* The same, while calls of the popup are still waiting for the browser *)
HandleCloseTabsOverlapping ==
    /\ ~actionsDisabled \/ selectedTabs # {}
    /\ CloseClick(MaxOverlap)

(* tabs.remove answered.  It closes every tab when all ids are open; when  *)
(* an id is not open it fails, having closed some of the others or none.   *)
(* On success handleCloseTabs clears the selection and loads the data      *)
(* again; on failure it resets the confirmation.                           *)
CloseTabsAnswered ==
    /\ closing # <<>>
    /\ LET ids == Head(closing) IN
       IF ids \subseteq browserTabs
       THEN /\ browserTabs' = browserTabs \ ids
            /\ selectedTabs' = {}
            /\ refreshes' = Append(refreshes,
                                   [tabs |-> getAllTabs(browserTabs'),
                                    sessions |-> getSavedSessions(storage),
                                    from |-> "close"])
            /\ closeConfirmation' = closeConfirmation
            /\ last' = [NoOp EXCEPT !.op = "closeTabsAnswered",
                                    !.issued = ids]
       ELSE /\ \E closed \in SUBSET (ids \cap browserTabs) :
                  browserTabs' = browserTabs \ closed
            /\ closeConfirmation' = FALSE
            /\ UNCHANGED <<selectedTabs, refreshes>>
            /\ last' = [NoOp EXCEPT !.op = "closeTabsAnswered", !.ok = FALSE,
                                    !.issued = ids]
    /\ closing' = Tail(closing)
    /\ UNCHANGED <<allTabs, filteredTabs, searchInput, debouncePending,
                   actionsDisabled, renderVars, timers, sessionVars,
                   restoreVars>>

(* A timer set by handleCloseTabs fires: resetCloseButtonState *)
CloseTimerFires ==
    /\ timers > 0
    /\ timers' = timers - 1
    /\ closeConfirmation' = FALSE
    /\ last' = [NoOp EXCEPT !.op = "closeTimerFires",
                            !.armed = closeConfirmation]
    /\ UNCHANGED <<browserTabs, allTabs, filteredTabs, selectedTabs,
                   searchInput, debouncePending, actionsDisabled, renderVars,
                   refreshes, closing, sessionVars, restoreVars>>

----------------------------------------------------------------------------
(* Saving the selected tabs as MHT files *)

(* saveMultipleTabsAsZip: captured[id] is whether saveAsMht(id) resolves,  *)
(* zipOk whether generateAsync does.  The catch of the loop logs the error *)
(* and the loop goes on with the next tab.  The files of the archive are   *)
(* named here by the tabs they hold.                                       *)
saveMultipleTabsAsZip(tabs, captured, zipOk) ==
    LET requested == tabs
        files == SelectSeq(requested, LAMBDA id : captured[id])
        failed == SelectSeq(requested, LAMBDA id : ~captured[id])
        successCount == Len(files)
        record == [NoOp EXCEPT !.op = "saveMultipleTabsAsZip",
                               !.captures = requested,
                               !.violations = failed]
    IN IF successCount = 0
       THEN [record EXCEPT !.ok = FALSE,
                           !.error = "ERROR: COULD NOT SAVE ANY TABS"]
       ELSE IF ~zipOk
       THEN [record EXCEPT !.ok = FALSE,
                           !.error = "ERROR: COULD NOT CREATE ZIP FILE"]
       ELSE [record EXCEPT !.archive = files, !.saved = TRUE,
                           !.error =
                               IF successCount < Len(tabs)
                               THEN "SAVED ${successCount}/${tabs.length} TABS AS ZIP"
                               ELSE "SAVED TABS AS ZIP"]

(* saveSingleTabAsMht: one capture, downloaded as it is *)
saveSingleTabAsMht(tab, captured) ==
    LET record == [NoOp EXCEPT !.op = "saveSingleTabAsMht",
                               !.captures = <<tab>>]
    IN IF captured[tab]
       THEN [record EXCEPT !.saved = TRUE, !.error = "SAVED TAB AS MHT"]
       ELSE [record EXCEPT !.ok = FALSE, !.violations = <<tab>>,
                 !.error = "ERROR: COULD NOT SAVE \"${tab.title}\": ${errorMsg}"]

(* The save-as-MHT button *)
HandleSaveAsMht ==
    LET tabsToSave == SelectSeq(allTabs, LAMBDA id : id \in selectedTabs) IN
    \E captured \in [Range(tabsToSave) -> BOOLEAN], zipOk \in BOOLEAN :
        /\ closeConfirmation' = FALSE
        /\ last' = IF selectedTabs = {}
                   THEN [NoOp EXCEPT !.op = "handleSaveAsMht"]
                   ELSE IF Len(tabsToSave) = 1
                   THEN saveSingleTabAsMht(tabsToSave[1], captured)
                   ELSE saveMultipleTabsAsZip(tabsToSave, captured, zipOk)
        /\ UNCHANGED <<browserTabs, allTabs, filteredTabs, selectedTabs,
                       searchInput, debouncePending, actionsDisabled,
                       renderVars, timers, refreshes, closing, sessionVars,
                       restoreVars>>

----------------------------------------------------------------------------
(* Bookmarking the selected tabs *)

(* bookmarkTabs: folderOk is whether bookmarks.create gives the folder,    *)
(* created[id] whether it gives the bookmark of tab id.  A rejected        *)
(* bookmark is caught and logged; the call then resolves.                  *)
bookmarkTabs(tabsToBookmark, folderOk, created) ==
    LET validTabs ==
            SelectSeq(tabsToBookmark,
                      LAMBDA id : /\ TabUrl(id) # <<>>
                                  /\ TabTitle(id) # <<>>
                                  /\ validateUrl(TabUrl(id)).isValid)
    IN IF tabsToBookmark = <<>>
       THEN [ok |-> FALSE, bookmarks |-> <<>>,
             message |-> "Failed to bookmark tabs: No tabs provided for bookmarking"]
       ELSE IF validTabs = <<>>
       THEN [ok |-> FALSE, bookmarks |-> <<>>,
             message |-> "Failed to bookmark tabs: No valid tabs to bookmark"]
       ELSE IF ~folderOk
       THEN [ok |-> FALSE, bookmarks |-> <<>>,
             message |-> "Failed to bookmark tabs: Failed to create bookmark folder"]
       ELSE [ok |-> TRUE,
             bookmarks |-> SelectSeq(validTabs, LAMBDA id : created[id]),
             message |-> ""]

(* handleBookmarkTabs: the bookmark button.  The toast of a call that      *)
(* resolved counts the tabs handed to bookmarkTabs.                        *)
HandleBookmarkTabs ==
    LET tabsToBookmark ==
            SelectSeq(allTabs, LAMBDA id : id \in selectedTabs) IN
    \E folderOk \in BOOLEAN, created \in [Range(tabsToBookmark) -> BOOLEAN] :
        LET result == bookmarkTabs(tabsToBookmark, folderOk, created) IN
        /\ closeConfirmation' = FALSE
        /\ last' = IF selectedTabs = {}
                   THEN [NoOp EXCEPT !.op = "handleBookmarkTabs"]
                   ELSE [NoOp EXCEPT
                            !.op = "handleBookmarkTabs",
                            !.ok = result.ok,
                            !.captures = tabsToBookmark,
                            !.bookmarks = result.bookmarks,
                            !.violations =
                                SelectSeq(tabsToBookmark,
                                          LAMBDA id : ~created[id]),
                            !.reported = IF result.ok
                                         THEN Len(tabsToBookmark) ELSE 0,
                            !.error =
                                IF result.ok
                                THEN "BOOKMARKED ${tabsToBookmark.length} TAB(S)"
                                ELSE "ERROR: COULD NOT BOOKMARK TABS"]
        /\ UNCHANGED <<browserTabs, allTabs, filteredTabs, selectedTabs,
                       searchInput, debouncePending, actionsDisabled,
                       renderVars, timers, refreshes, closing, sessionVars,
                       restoreVars>>

----------------------------------------------------------------------------
(* The session store *)

RECURSIVE Flatten(_)
Flatten(seqs) ==
    IF seqs = <<>> THEN <<>> ELSE Head(seqs) \o Flatten(Tail(seqs))

(* What saveSessions pushes to validationErrors for the session at index i *)
SessionErrors(session, i) ==
    LET nameValidation == validateSessionName(session.name) IN
    (IF nameValidation.isValid THEN <<>>
     ELSE <<[session |-> i, tab |-> 0, error |-> nameValidation.error]>>)
    \o (IF ~session.tabsIsArray \/ Len(session.tabs) = 0
        THEN <<[session |-> i, tab |-> 0,
                error |-> "Must have at least one tab"]>>
        ELSE <<>>)
    \o Flatten([j \in 1..Len(session.tabs) |->
                   IF validateUrl(session.tabs[j].url).isValid THEN <<>>
                   ELSE <<[session |-> i, tab |-> j,
                           error |-> validateUrl(session.tabs[j].url).error]>>])

ValidationErrors(sessions) ==
    Flatten([i \in 1..Len(sessions) |-> SessionErrors(sessions[i], i)])

(* session.tabs.forEach throws a TypeError when tabs is not an array *)
ForEachThrows(sessions) ==
    \E i \in 1..Len(sessions) : ~sessions[i].tabsIsArray

(* saveSessions: the outcome, and whether storage.local.set was called.    *)
(* apiOk tells whether storage.local.set succeeds when it is called.       *)
saveSessions(sessions, apiOk) ==
    LET errors == ValidationErrors(sessions) IN
    IF ForEachThrows(sessions)
    THEN [ok |-> FALSE, called |-> FALSE,
          message |-> "Failed to save sessions", violations |-> <<>>]
    ELSE IF errors # <<>>
    THEN [ok |-> FALSE, called |-> FALSE,
          message |-> "Validation failed", violations |-> errors]
    ELSE IF ~apiOk
    THEN [ok |-> FALSE, called |-> TRUE,
          message |-> "Failed to save sessions", violations |-> <<>>]
    ELSE [ok |-> TRUE, called |-> TRUE,
          message |-> "", violations |-> <<>>]

(* The document under the "sessions" key after a saveSessions(sessions)    *)
(* that ended with result                                                  *)
StorageAfterSave(stored, sessions, result) ==
    IF result.ok THEN sessions ELSE stored

(* The count of rejected storage.local.set calls after it *)
FailuresAfterSave(n, result) ==
    IF result.called /\ ~result.ok THEN n + 1 ELSE n

(* Sessions that can be in the list handed to saveSessions: an import     *)
(* accepts every item whose name and tabs are truthy, with or without a    *)
(* date, its tabs with or without a title.                                 *)
SaveItems ==
    {[name |-> NameWork, tabs |-> <<SessionTabOf(1)>>, date |-> 1,
      tabsIsArray |-> TRUE],
     [name |-> NameSlash, tabs |-> <<SessionTabOf(1)>>, date |-> 1,
      tabsIsArray |-> TRUE],
     [name |-> NameTrip, tabs |-> <<>>, date |-> 1, tabsIsArray |-> TRUE],
     [name |-> NameTrip, tabs |-> <<>>, date |-> 1, tabsIsArray |-> FALSE],
     [name |-> NameWork,
      tabs |-> <<SessionTabOf(1), [url |-> UrlNotAUrl, title |-> <<"x">>]>>,
      date |-> 1, tabsIsArray |-> TRUE],
     [name |-> NameWork, tabs |-> <<SessionTabOf(1)>>, tabsIsArray |-> TRUE],
     [name |-> NameWork, tabs |-> <<[url |-> UrlA]>>, date |-> 1,
      tabsIsArray |-> TRUE]}

SaveBatches == UNION {[1..n -> SaveItems] : n \in 0..MaxBatch}

(* One call of saveSessions *)
SaveSessionsCall ==
    \E sessions \in SaveBatches, apiOk \in BOOLEAN :
        LET result == saveSessions(sessions, apiOk) IN
        /\ storage' = StorageAfterSave(storage, sessions, result)
        /\ last' = [NoOp EXCEPT !.op = "saveSessions", !.ok = result.ok,
                                !.error = result.message,
                                !.violations = result.violations,
                                !.incoming = sessions]
        /\ UNCHANGED <<tabVars, restoreVars, savedSessions, apiFailures>>

(* getSavedSessions is called on the store as it is *)
GetSavedSessions ==
    /\ last' = getSavedSessionsCall([isArray |-> TRUE, sessions |-> storage])
    /\ UNCHANGED <<tabVars, sessionVars, restoreVars>>

(* Inputs of the session handlers *)
SaveNameInputs == {NameWork, NameEmpty, NameSlash, NameLong}

RenameInputs == {NamePadded, NameSlash, NameBlank}

Dates == {1}

(* handleSaveSession: the name used is the trimmed input or, when that is  *)
(* empty, the current timestamp.                                           *)
SessionNameOf(input, d) ==
    IF Trim(input) # <<>> THEN Trim(input) ELSE getCurrentTimestamp(d)

TabsToSave_visible(tabs, selected) ==
    LET chosen == SelectSeq(filteredTabs, LAMBDA id : id \in selected)
    IN [i \in 1..Len(chosen) |-> SessionTabOf(chosen[i])]

(* The tabs saved: the selected tabs of the live collection, in its order *)
TabsToSave(tabs, selected) ==
    LET chosen == SelectSeq(tabs, LAMBDA id : id \in selected)
    IN [i \in 1..Len(chosen) |-> SessionTabOf(chosen[i])]

NewSession(name, tabs, d) ==
    [name |-> name, tabs |-> tabs, date |-> d, tabsIsArray |-> TRUE]

(* The handler has put list in state.savedSessions and awaits              *)
(* saveSessions(state.savedSessions); record tells what the handler was    *)
(* given.  The storage API is asked only when the list validates.          *)
Persist(list, record) ==
    \E apiOk \in BOOLEAN :
        LET result == saveSessions(list, apiOk) IN
        /\ apiOk \/ (result.called /\ apiFailures < MaxApiFailures)
        /\ savedSessions' = list
        /\ storage' = StorageAfterSave(storage, list, result)
        /\ apiFailures' = FailuresAfterSave(apiFailures, result)
        /\ last' = [record EXCEPT !.ok = result.ok, !.error = result.message,
                                  !.violations = result.violations,
                                  !.saved = TRUE]

(* The handler returns before it touches the list *)
Rejected(record) ==
    /\ UNCHANGED <<savedSessions, storage, apiFailures>>
    /\ last' = [record EXCEPT !.ok = FALSE]

(* handleSaveSession *)
HandleSaveSession ==
    \E input \in SaveNameInputs, d \in Dates :
        LET name == SessionNameOf(input, d)
            list == <<NewSession(name, TabsToSave(allTabs, selectedTabs), d)>>
                        \o savedSessions
        IN
        /\ Len(savedSessions) < MaxSessions
        /\ IF selectedTabs = {}
           THEN Rejected([NoOp EXCEPT !.op = "handleSaveSession",
                                      !.error = "SELECT TABS TO SAVE"])
           ELSE IF ~validateSessionName(name).isValid
           THEN Rejected([NoOp EXCEPT !.op = "handleSaveSession",
                              !.name = input,
                              !.error = validateSessionName(name).error])
           ELSE Persist(list, [NoOp EXCEPT !.op = "handleSaveSession",
                                           !.name = input])
        /\ UNCHANGED <<tabVars, restoreVars>>

(* handleDeleteSession: the session at the index of the clicked item is    *)
(* spliced out after the user confirmed, and the rest is saved.  The index *)
(* is that of a rendered item, so a session is there.                      *)
HandleDeleteSession ==
    \E confirmed \in BOOLEAN :
        /\ savedSessions # <<>>
        /\ IF ~confirmed
           THEN Rejected([NoOp EXCEPT !.op = "handleDeleteSession"])
           ELSE \E index \in 1..Len(savedSessions) :
                    Persist(RemoveAt(savedSessions, index),
                            [NoOp EXCEPT !.op = "handleDeleteSession",
                                         !.index = index])
        /\ UNCHANGED <<tabVars, restoreVars>>

(* createEditableSessionItem: the edit form hands a name to onSave only    *)
(* when updateValidation accepts the text of the input, and hands it       *)
(* trimmed.                                                                *)
EditFormAccepts(text) == validateSessionName(text).isValid

(* saveSessionNameEdit: the name is assigned, then the list is saved.  The *)
(* form that calls it belongs to a rendered item.                          *)
RenamedList(sessions, index, newName) ==
    [sessions EXCEPT ![index].name = newName]

SaveSessionNameEdit ==
    \E text \in RenameInputs :
        /\ savedSessions # <<>>
        /\ IF ~EditFormAccepts(text)
           THEN Rejected([NoOp EXCEPT !.op = "saveSessionNameEdit",
                                      !.name = text])
           ELSE \E index \in 1..Len(savedSessions) :
                    Persist(RenamedList(savedSessions, index, Trim(text)),
                            [NoOp EXCEPT !.op = "saveSessionNameEdit",
                                         !.index = index, !.name = text])
        /\ UNCHANGED <<tabVars, restoreVars>>

(* Import files.  A file is its JSON text parsed: format "invalid" (not    *)
(* JSON), "array" (a bare array), "object" (an object with sessions) or    *)
(* "none" (an object without a sessions array).  An item's tabs are an     *)
(* array, another truthy value ("object") or absent ("missing").           *)
Item(name, tabsKind, tabs) ==
    [name |-> name, tabsKind |-> tabsKind, tabs |-> tabs, date |-> 0]

ItemWork == Item(NameWork, "array", <<SessionTabOf(1)>>)
ItemTrip == Item(NameTrip, "array", <<SessionTabOf(1)>>)
ItemNoTabs == Item(NameWork, "missing", <<>>)

ImportFiles ==
    {[format |-> "invalid", sessions |-> <<>>],
     [format |-> "none", sessions |-> <<>>],
     [format |-> "array", sessions |-> <<ItemWork>>],
     [format |-> "object", sessions |-> <<ItemTrip, ItemWork>>],
     [format |-> "array", sessions |-> <<ItemNoTabs>>]}

(* The object processImportFile puts into the list for an item *)
SessionOfItem(item) ==
    [name |-> item.name, tabs |-> item.tabs, date |-> item.date,
     tabsIsArray |-> item.tabsKind = "array"]

(* importedSessions.some((s) => !s?.name || !s?.tabs) *)
InvalidSessionFormat(items) ==
    \E i \in 1..Len(items) :
        items[i].name = <<>> \/ items[i].tabsKind = "missing"

(* The error processImportFile throws before it merges, "" when none *)
ImportFormatError(file) ==
    IF file.format = "invalid" THEN "Invalid JSON format"
    ELSE IF file.format = "none" THEN "No valid sessions found in file"
    ELSE IF InvalidSessionFormat(file.sessions) THEN "Invalid session format"
    ELSE ""

SessionNames(sessions) == {sessions[i].name : i \in 1..Len(sessions)}

NewSessions_all(existing, items) ==
    [i \in 1..Len(items) |-> SessionOfItem(items[i])]

(* newSessions: the imported sessions whose name no existing session has *)
NewSessions(existing, items) ==
    LET kept == SelectSeq(items,
                          LAMBDA it : it.name \notin SessionNames(existing))
    IN [i \in 1..Len(kept) |-> SessionOfItem(kept[i])]

ImportMerge_append(existing, items) == existing \o NewSessions(existing, items)

(* savedSessions.unshift(...newSessions) *)
ImportMerge(existing, items) == NewSessions(existing, items) \o existing

(* processImportFile *)
ProcessImportFile ==
    \E file \in ImportFiles :
        /\ Len(ImportMerge(savedSessions, file.sessions)) <= MaxSessions
        /\ IF ImportFormatError(file) # ""
           THEN Rejected([NoOp EXCEPT !.op = "processImportFile",
                                      !.error = ImportFormatError(file),
                                      !.incoming = file.sessions])
           ELSE IF NewSessions(savedSessions, file.sessions) = <<>>
           THEN /\ UNCHANGED <<savedSessions, storage, apiFailures>>
                /\ last' = [NoOp EXCEPT !.op = "processImportFile",
                                        !.incoming = file.sessions]
           ELSE Persist(ImportMerge(savedSessions, file.sessions),
                        [NoOp EXCEPT !.op = "processImportFile",
                                     !.incoming = file.sessions])
        /\ UNCHANGED <<tabVars, restoreVars>>

----------------------------------------------------------------------------
(* restoreSession.  The call runs from one await to the next; the browser  *)
(* answers each request and reports the load of each tab it created.       *)

RestoreUrls ==
    {UrlA, UrlB, UrlChrome, UrlNotAUrl, UrlHttpsNoSlashes, UrlHttpNoSlashes,
     UrlEmpty}

(* The tabs of the sessions restored: their URLs, UrlEmpty for no URL *)
RestoreSessions == UNION {[1..n -> RestoreUrls] : n \in 0..MaxRestoreTabs}

NoUrlFound == <<"<No URL found>">>

(* The test that puts a URL into validUrls *)
IsRestorable(url) ==
    /\ validateUrl(url).isValid
    /\ \/ StartsWith(url, <<"http", ":">>)
       \/ StartsWith(url, <<"https", ":", "//">>)

(* The for loop over session.tabs *)
PartitionTabs(urls) ==
    [valid |-> SelectSeq(urls, LAMBDA u : u # <<>> /\ IsRestorable(u)),
     invalid |->
        LET rest == SelectSeq(urls, LAMBDA u : u = <<>> \/ ~IsRestorable(u))
        IN [k \in 1..Len(rest) |->
               IF rest[k] = <<>> THEN NoUrlFound ELSE rest[k]]]

Request(call, url, tab) == [call |-> call, url |-> url, tab |-> tab]

ReportUrl(invalid) == <<"data:text/html">> \o Flatten(invalid)

(* The request for the report page: a tab of the new window if there is    *)
(* one, a window of its own otherwise.                                     *)
ReportRequest(r) ==
    Request(IF r.window THEN "tabs.create" ELSE "windows.create",
            ReportUrl(r.invalid), 0)

(* The call ends with a thrown error.  The outer catch rethrows a          *)
(* SessionError or a BrowserApiError and wraps anything else in a          *)
(* SessionError.                                                           *)
Thrown(r, class, message) ==
    [r EXCEPT !.pc = "failed",
              !.error = IF class \in {"SessionError", "BrowserApiError"}
                        THEN class ELSE "SessionError",
              !.message = IF class \in {"SessionError", "BrowserApiError"}
                          THEN message ELSE "Failed to restore session"]

(* The end of the call, after the report page: the last test of the try *)
Finish(r) ==
    IF r.valid = <<>> /\ r.invalid = <<>>
    THEN Thrown(r, "SessionError", "No valid tabs found in session")
    ELSE [r EXCEPT !.pc = "done"]

(* The call goes on with validUrls[i]: it asks for that tab, or the loop   *)
(* is over and it asks for the report page, or it is done.                 *)
Continue(r, i) ==
    IF r.window /\ i <= Len(r.valid)
    THEN [r EXCEPT !.pc = "create", !.i = i]
    ELSE IF r.invalid # <<>> THEN [r EXCEPT !.pc = "report", !.i = i]
    ELSE Finish([r EXCEPT !.i = i])

HasNoTabs_never(urls) == FALSE

(* The first test of the call: session.tabs is missing or empty *)
HasNoTabs(urls) == urls = <<>>

AfterTabError_break(r) == Len(r.valid) + 1

(* The catch inside the loop: the loop goes on with the next index *)
AfterTabError(r) == r.i + 1

ContinueLog(r, i, log) ==
    IF r.window /\ i <= Len(r.valid)
    THEN Append(log, Request("tabs.create", r.valid[i], 0))
    ELSE IF r.invalid # <<>> THEN Append(log, ReportRequest(r))
    ELSE log

NewTab(url, byLoop) ==
    [url |-> url, byLoop |-> byLoop, status |-> "loading", settled |-> FALSE]

RestoreSession ==
    \E urls \in RestoreSessions :
        LET p == PartitionTabs(urls)
            r == [IdleRestore EXCEPT !.valid = p.valid, !.invalid = p.invalid]
        IN
        /\ rs.pc = "idle"
        /\ IF HasNoTabs(urls)
           THEN /\ rs' = Thrown(IdleRestore, "SessionError",
                                "Session has no tabs to restore")
                /\ browserLog' = browserLog
           ELSE IF p.valid # <<>>
           THEN /\ rs' = [r EXCEPT !.pc = "window", !.i = 1]
                /\ browserLog' = Append(browserLog,
                                   Request("windows.create", p.valid[1], 0))
           ELSE /\ rs' = Continue(r, 1)
                /\ browserLog' = ContinueLog(r, 1, browserLog)
        /\ last' = [NoOp EXCEPT !.op = "restoreSession", !.incoming = urls]
        /\ UNCHANGED <<tabVars, sessionVars, restoredTabs>>

WindowAnswers == {"window", "noId", "rejected"}

(* windows.create answered: the window has one tab, loading validUrls[0].  *)
(* A window without id throws a BrowserApiError; a rejection is an Error   *)
(* of the browser, which the outer catch wraps.                            *)
WindowsCreateAnswered ==
    \E answer \in WindowAnswers :
        /\ rs.pc = "window"
        /\ IF answer = "window"
           THEN LET r == [rs EXCEPT !.window = TRUE] IN
                /\ restoredTabs' = Append(restoredTabs,
                                          NewTab(rs.valid[1], FALSE))
                /\ rs' = Continue(r, 2)
                /\ browserLog' = ContinueLog(r, 2, browserLog)
           ELSE /\ rs' = IF answer = "noId"
                          THEN Thrown(rs, "BrowserApiError",
                                      "Failed to create new window")
                          ELSE Thrown(rs, "Error", "")
                /\ UNCHANGED <<restoredTabs, browserLog>>
        /\ last' = [NoOp EXCEPT !.op = "windowsCreateAnswered",
                                !.ok = (answer = "window")]
        /\ UNCHANGED <<tabVars, sessionVars>>

(* tabs.create of the loop answered: the tab exists and loads, or the      *)
(* rejection is caught and the loop goes on.                               *)
TabsCreateAnswered ==
    \E ok \in BOOLEAN :
        /\ rs.pc = "create"
        /\ IF ok
           THEN /\ restoredTabs' = Append(restoredTabs,
                                          NewTab(rs.valid[rs.i], TRUE))
                /\ rs' = [rs EXCEPT !.pc = "created",
                                    !.tab = Len(restoredTabs) + 1]
                /\ browserLog' = browserLog
           ELSE /\ rs' = Continue(rs, AfterTabError(rs))
                /\ browserLog' = ContinueLog(rs, AfterTabError(rs), browserLog)
                /\ restoredTabs' = restoredTabs
        /\ last' = [NoOp EXCEPT !.op = "tabsCreateAnswered", !.ok = ok]
        /\ UNCHANGED <<tabVars, sessionVars>>

(* The call resumes after tabs.create and adds its onUpdated listener *)
RestoreListens ==
    /\ rs.pc = "created"
    /\ rs' = [rs EXCEPT !.pc = "wait"]
    /\ last' = [NoOp EXCEPT !.op = "restoreListens"]
    /\ UNCHANGED <<tabVars, sessionVars, browserLog, restoredTabs>>

ListenerResolves_anyTab(newTabId, tabId, status) == status = "complete"

(* The listener resolves on the complete event of the tab it waits for *)
ListenerResolves(newTabId, tabId, status) ==
    tabId = newTabId /\ status = "complete"

(* A tab finished loading: onUpdated fires with status complete.  If the   *)
(* listener resolves, the call resumes and asks to discard its tab.        *)
TabUpdated ==
    \E tabId \in 1..Len(restoredTabs) :
        /\ restoredTabs[tabId].status = "loading"
        /\ restoredTabs' = [restoredTabs EXCEPT ![tabId].status = "complete"]
        /\ IF rs.pc = "wait" /\ ListenerResolves(rs.tab, tabId, "complete")
           THEN /\ rs' = [rs EXCEPT !.pc = "discard"]
                /\ browserLog' = Append(browserLog,
                                   Request("tabs.discard", <<>>, rs.tab))
           ELSE UNCHANGED <<rs, browserLog>>
        /\ last' = [NoOp EXCEPT !.op = "tabUpdated", !.index = tabId]
        /\ UNCHANGED <<tabVars, sessionVars>>

(* tabs.discard answered: the tab is unloaded, or the rejection is caught; *)
(* the loop goes on either way.                                            *)
TabsDiscardAnswered ==
    \E ok \in BOOLEAN :
        /\ rs.pc = "discard"
        /\ restoredTabs' =
              [restoredTabs EXCEPT
                  ![rs.tab].status = IF ok THEN "discarded" ELSE @,
                  ![rs.tab].settled = TRUE]
        /\ LET next == IF ok THEN rs.i + 1 ELSE AfterTabError(rs) IN
           /\ rs' = Continue(rs, next)
           /\ browserLog' = ContinueLog(rs, next, browserLog)
        /\ last' = [NoOp EXCEPT !.op = "tabsDiscardAnswered", !.ok = ok]
        /\ UNCHANGED <<tabVars, sessionVars>>

(* The request for the report page answered; a rejection is caught *)
ReportAnswered ==
    \E ok \in BOOLEAN :
        /\ rs.pc = "report"
        /\ rs' = Finish(rs)
        /\ last' = [NoOp EXCEPT !.op = "reportAnswered", !.ok = ok]
        /\ UNCHANGED <<tabVars, sessionVars, browserLog, restoredTabs>>

(* The user closes a tab of the new window while it loads: onRemoved       *)
(* fires, and no onUpdated event of that tab follows.                      *)
RestoredTabClosed ==
    \E tabId \in 1..Len(restoredTabs) :
        /\ restoredTabs[tabId].status = "loading"
        /\ restoredTabs' = [restoredTabs EXCEPT ![tabId].status = "closed"]
        /\ last' = [NoOp EXCEPT !.op = "restoredTabClosed", !.index = tabId]
        /\ UNCHANGED <<tabVars, sessionVars, rs, browserLog>>

Next ==
    \/ BrowserTabChange
    \/ LoadInitialDataStart
    \/ LoadInitialDataComplete
    \/ HandleTabSelectionChange
    \/ HandleSelectAll
    \/ HandleEscape
    \/ HandleCloseTabs
    \/ CloseTabsAnswered
    \/ CloseTimerFires

Spec == Init /\ [][Next]_vars

(* The popup once init() has loaded the data, over one of the stores: the  *)
(* tabs in open are the live collection and the tabs in selected are       *)
(* selected.                                                               *)
LoadedWith(tabs, selected, stores) ==
    /\ browserTabs = Range(tabs)
    /\ allTabs = tabs
    /\ filteredTabs =
          applyFilters(tabs,
                       [timeFilter |-> NONE, searchTerm |-> <<>>,
                        sortBy |-> "lastAccessed"], 100)
    /\ selectedTabs = selected
    /\ actionsDisabled = ButtonsDisabled(selected)
    /\ viewMode = "list"
    /\ timeFilterSelect = NONE
    /\ sortBySelect = "lastAccessed"
    /\ selectAllBox = updateSelectAllCheckboxState(filteredTabs, selected)
    /\ groupBoxes = <<>>
    /\ closeConfirmation = FALSE
    /\ searchInput = <<>>
    /\ debouncePending = 0
    /\ timers = 0
    /\ refreshes = <<>>
    /\ closing = <<>>
    /\ InitRestore
    /\ storage \in stores
    /\ savedSessions = getSavedSessions(storage)
    /\ apiFailures = 0
    /\ last = NoOp

LoadedOver(open, selected, stores) ==
    LoadedWith(getAllTabs(open), selected, stores)

Loaded(open, selected) == LoadedOver(open, selected, InitialStorage)

(* The session store, in a popup that has loaded its data *)
InitSessions == Loaded(TabIds, {})

NextSessions ==
    \/ HandleSelectAll
    \/ HandleSaveSession
    \/ HandleDeleteSession
    \/ SaveSessionNameEdit
    \/ ProcessImportFile

SpecSessions == InitSessions /\ [][NextSessions]_vars

(* One restoreSession call and the browser that serves it *)
InitRestoreOnly ==
    /\ InitTabs
    /\ InitRestore
    /\ savedSessions = <<>>
    /\ storage = <<>>
    /\ apiFailures = 0
    /\ last = NoOp

NextRestore ==
    \/ RestoreSession
    \/ WindowsCreateAnswered
    \/ TabsCreateAnswered
    \/ RestoreListens
    \/ TabUpdated
    \/ TabsDiscardAnswered
    \/ ReportAnswered

SpecRestore == InitRestoreOnly /\ [][NextRestore]_vars

(* The tab list of a loaded popup under the search box, the view mode and  *)
(* the checkboxes                                                          *)
InitFilter == Loaded(1..MaxFilterTabs, {})

NextFilter ==
    \/ SearchEdit
    \/ DebouncedRender
    \/ ViewModeChange
    \/ HandleTabSelectionChange
    \/ HandleSelectAll
    \/ HandleGroupSelectionChange
    \/ HandleEscape

SpecFilter == InitFilter /\ [][NextFilter]_vars

(* Saving a session while the search box filters the list.  The store has *)
(* room for one more session.                                              *)
InitFilterSave ==
    LoadedOver(TabIds, {},
               {[k \in 1..(MaxSessions - 1) |-> StoredSession]})

NextFilterSave ==
    \/ SearchEdit
    \/ DebouncedRender
    \/ HandleSelectAll
    \/ HandleSaveSession

SpecFilterSave == InitFilterSave /\ [][NextFilterSave]_vars

(* Calls of saveSessions on a store *)
InitSave ==
    /\ InitTabs
    /\ InitRestore
    /\ savedSessions = <<>>
    /\ storage \in InitialStorage
    /\ apiFailures = 0
    /\ last = NoOp

NextSave == SaveSessionsCall

SpecSave == InitSave /\ [][NextSave]_vars

(* Saving from a selection that holds the id of a closed tab.  The tab was *)
(* selected, then closed in the browser, and loadInitialData has run       *)
(* since: it replaces allTabs and keeps selectedTabs.                      *)
InitStale == Loaded(TabIds \ {MaxTabs}, {MaxTabs})

NextStale ==
    \/ HandleSelectAll
    \/ HandleSaveSession

SpecStale == InitStale /\ [][NextStale]_vars

(* The filter and sort pipeline over every order of the tab strip: the    *)
(* popup has loaded the tabs and one of them is selected; the search text, *)
(* the time filter and the sort order are then changed.                    *)
TabOrders ==
    {tabs \in [1..MaxSortTabs -> 1..MaxSortTabs] :
        Range(tabs) = 1..MaxSortTabs}

InitPipeline ==
    \E tabs \in TabOrders : LoadedWith(tabs, {tabs[1]}, {<<>>})

NextPipeline ==
    \/ SearchEdit
    \/ DebouncedRender
    \/ TimeFilterChange
    \/ SortByChange

SpecPipeline == InitPipeline /\ [][NextPipeline]_vars

(* The export: tabs are selected and the save-as-MHT button is pressed *)
InitExport == LoadedOver(1..MaxFilterTabs, {}, {<<>>})

NextExport ==
    \/ HandleTabSelectionChange
    \/ HandleSaveAsMht

SpecExport == InitExport /\ [][NextExport]_vars

(* The session store is read, whatever it holds *)
InitRead == LoadedOver(TabIds, {}, {<<>>})

NextRead == ReadSessions

SpecRead == InitRead /\ [][NextRead]_vars

(* Names are validated, whatever they are *)
InitNames == LoadedOver(TabIds, {}, {<<>>})

NextNames == ValidateName

SpecNames == InitNames /\ [][NextNames]_vars

(* URLs are classified, whatever they are *)
InitDomains == LoadedOver(TabIds, {}, {<<>>})

NextDomains == ClassifyUrl

SpecDomains == InitDomains /\ [][NextDomains]_vars

(* Refreshes that overlap: tabs change in the browser, each change starts  *)
(* a loadInitialData, and the calls complete in the order in which the     *)
(* browser answers them.                                                   *)
InitOverlap == LoadedOver(TabIds, {}, {<<>>})

NextOverlap ==
    \/ BrowserTabChange
    \/ LoadInitialDataStartOverlapping
    \/ LoadInitialDataComplete

SpecOverlap == InitOverlap /\ [][NextOverlap]_vars

(* A session is saved while a refresh is waiting for the browser *)
InitRace == LoadedOver(TabIds, {1}, {<<>>})

NextRace ==
    \/ LoadInitialDataStart
    \/ LoadInitialDataComplete
    \/ HandleSaveSession

SpecRace == InitRace /\ [][NextRace]_vars

(* The search box and the three selects of a loaded popup *)
InitDebounce == LoadedOver(TabIds, {}, {<<>>})

NextDebounce ==
    \/ SearchEdit
    \/ DebouncedRender
    \/ TimeFilterChange
    \/ SortByChange
    \/ ViewModeChange

SpecDebounce == InitDebounce /\ [][NextDebounce]_vars

(* Bookmarking: tabs are selected and the bookmark button is pressed *)
InitBookmark == LoadedOver(1..MaxFilterTabs, {}, {<<>>})

NextBookmark ==
    \/ HandleTabSelectionChange
    \/ HandleBookmarkTabs

SpecBookmark == InitBookmark /\ [][NextBookmark]_vars

(* One restoreSession call, a browser that answers every request and       *)
(* finishes every load it is let to finish, and a user who may close the   *)
(* tabs of the new window.                                                 *)
NextRestoreLive ==
    \/ NextRestore
    \/ RestoredTabClosed

SpecRestoreLive ==
    /\ InitRestoreOnly
    /\ [][NextRestoreLive]_vars
    /\ WF_vars(WindowsCreateAnswered)
    /\ WF_vars(TabsCreateAnswered)
    /\ WF_vars(RestoreListens)
    /\ WF_vars(TabUpdated)
    /\ WF_vars(TabsDiscardAnswered)
    /\ WF_vars(ReportAnswered)

(* Closing tabs in a loaded popup: the selection is changed with the       *)
(* checkboxes of the tabs, of the groups and of the whole list and with    *)
(* the Escape key, and the close action is invoked.                        *)
InitClose == LoadedOver(TabIds, {}, {<<>>})

NextClose ==
    \/ HandleTabSelectionChange
    \/ HandleSelectAll
    \/ ViewModeChange
    \/ HandleGroupSelectionChange
    \/ HandleEscape
    \/ HandleCloseTabs
    \/ CloseTabsAnswered
    \/ LoadInitialDataComplete

SpecClose == InitClose /\ [][NextClose]_vars

(* The close action invoked again while earlier calls of it await the      *)
(* browser                                                                 *)
InitCloseAgain == LoadedOver(TabIds, {}, {<<>>})

NextCloseAgain ==
    \/ HandleTabSelectionChange
    \/ HandleCloseTabsOverlapping
    \/ CloseTabsAnswered
    \/ LoadInitialDataComplete
    \/ CloseTimerFires

SpecCloseAgain == InitCloseAgain /\ [][NextCloseAgain]_vars

(* Calls of saveSessions on a store, and reads of the store between them *)
InitRoundTrip == InitSave

NextRoundTrip ==
    \/ SaveSessionsCall
    \/ GetSavedSessions

SpecRoundTrip == InitRoundTrip /\ [][NextRoundTrip]_vars

(* Refreshes of a loaded popup in which a tab is selected and the search   *)
(* text is edited, while tabs open and close in the browser                *)
InitRefresh == LoadedOver(TabIds, {1}, InitialStorage)

NextRefresh ==
    \/ BrowserTabChange
    \/ LoadInitialDataStart
    \/ LoadInitialDataComplete
    \/ SearchEdit
    \/ DebouncedRender

SpecRefresh == InitRefresh /\ [][NextRefresh]_vars

----------------------------------------------------------------------------
(* Properties *)

(* C1: after every completed refresh (loadInitialData has replaced the     *)
(* live tab collection), the selection holds no id that is absent from     *)
(* the refreshed collection.                                               *)
C1_SelectionPrunedOnRefresh ==
    (last.op = "loadInitialData" /\ last.ok) =>
        selectedTabs \subseteq Range(allTabs)

(* C2: handleCloseTabs asks the browser to remove tabs only on an          *)
(* invocation made while the confirmation is armed; an invocation made     *)
(* while it is not armed arms it and closes nothing.                       *)
C2_RemovalOnlyWhenArmed ==
    [][/\ Len(closing') > Len(closing) =>
              closeConfirmation /\ last'.op = "handleCloseTabs"
       /\ (last'.op = "handleCloseTabs" /\ ~closeConfirmation) =>
              /\ closeConfirmation'
              /\ closing' = closing
              /\ browserTabs' = browserTabs]_vars

C2_Witness ==
    /\ last.op = "handleCloseTabs"
    /\ last.armed
    /\ last.issued # {}
    /\ closing # <<>>

(* C3: saveSessions writes the list only if every session validates; if   *)
(* any session fails, the call is rejected with a SessionError that        *)
(* describes every violation, and the stored document is unchanged.        *)
C3_SaveValidatesAtomically ==
    [][last'.op = "saveSessions" =>
          /\ last'.ok => ValidationErrors(last'.incoming) = <<>>
          /\ ValidationErrors(last'.incoming) # <<>> =>
                /\ ~last'.ok
                /\ last'.error = "Validation failed"
                /\ last'.violations = ValidationErrors(last'.incoming)
                /\ storage' = storage]_vars

C4_BadName(input) ==
    \/ Trim(input) = <<>>
    \/ Len(Trim(input)) > MaxNameLen
    \/ \E i \in 1..Len(input) : input[i] \in InvalidChars

(* C4: the save-session action fails and adds no session to the in-memory  *)
(* or the persisted list whenever the given name is empty, longer than 100 *)
(* characters or has a filename-unsafe character, or whenever the list of  *)
(* tabs to save is empty.                                                  *)
C4_CreateRejectsBadInput ==
    [][(/\ last'.op = "handleSaveSession"
        /\ \/ C4_BadName(last'.name)
           \/ TabsToSave(allTabs, selectedTabs) = <<>>) =>
          /\ ~last'.ok
          /\ savedSessions' = savedSessions
          /\ storage' = storage]_vars

C5_Fresh(existing, incoming) ==
    SelectSeq(incoming,
              LAMBDA it : \A k \in 1..Len(existing) :
                              existing[k].name # it.name)

(* C5: an import adds exactly the incoming sessions whose name no existing *)
(* session has, in front of the existing sessions, which it leaves as they *)
(* are; when there is none it persists nothing and raises no error.        *)
C5_ImportMergeAdditive ==
    [][(last'.op = "processImportFile" /\ (last'.ok \/ last'.saved)) =>
          LET fresh == C5_Fresh(savedSessions, last'.incoming) IN
          /\ Len(savedSessions') = Len(savedSessions) + Len(fresh)
          /\ SubSeq(savedSessions', Len(fresh) + 1, Len(savedSessions'))
                = savedSessions
          /\ \A k \in 1..Len(fresh) :
                /\ savedSessions'[k].name = fresh[k].name
                /\ savedSessions'[k].tabs = fresh[k].tabs
          /\ fresh = <<>> =>
                last'.ok /\ ~last'.saved /\ storage' = storage
          /\ (fresh # <<>> /\ last'.ok) => storage' = savedSessions']_vars

C5_Witness ==
    /\ last.op = "processImportFile"
    /\ last.ok
    /\ last.saved
    /\ Len(last.incoming) = 2
    /\ last.incoming[1].name = NameTrip
    /\ Len(savedSessions) = 2
    /\ savedSessions[1].name = NameWork
    /\ savedSessions[2] = StoredSession
    /\ storage = savedSessions

(* C6: a successful create or import puts the new session(s) in front of   *)
(* the list; the sessions that were in the list follow, unchanged and in   *)
(* their order, and the list is what is persisted.                         *)
C6_MostRecentFirst ==
    [][(/\ last'.op \in {"handleSaveSession", "processImportFile"}
        /\ last'.saved
        /\ last'.ok) =>
          /\ Len(savedSessions') > Len(savedSessions)
          /\ SubSeq(savedSessions',
                    Len(savedSessions') - Len(savedSessions) + 1,
                    Len(savedSessions')) = savedSessions
          /\ last'.op = "handleSaveSession" =>
                /\ Len(savedSessions') = Len(savedSessions) + 1
                /\ savedSessions'[1].tabs = TabsToSave(allTabs, selectedTabs)
                /\ Trim(last'.name) # <<>> =>
                      savedSessions'[1].name = Trim(last'.name)
          /\ storage' = savedSessions']_vars

C6_Witness ==
    /\ last.op = "handleSaveSession"
    /\ last.ok
    /\ last.saved
    /\ Len(savedSessions) = 2
    /\ savedSessions[1].name = NameWork
    /\ savedSessions[2] = StoredSession
    /\ storage = savedSessions

(* C7: a confirmed delete removes exactly the session at the index, keeps  *)
(* the others as they are and in order, and persists what remains; a save  *)
(* of "Work" from the selected tabs into an empty store persists one       *)
(* session with one SessionTab per selected tab (2 for 2 tabs), and the    *)
(* delete of index 0 after it leaves an empty persisted list.              *)
C7_DeleteRemovesOne ==
    [][/\ (last'.op = "handleDeleteSession" /\ last'.saved) =>
              /\ last'.index \in 1..Len(savedSessions)
              /\ Len(savedSessions') = Len(savedSessions) - 1
              /\ \A k \in 1..Len(savedSessions') :
                    savedSessions'[k] =
                        IF k < last'.index THEN savedSessions[k]
                        ELSE savedSessions[k + 1]
              /\ storage' = IF last'.ok THEN savedSessions' ELSE storage
       /\ (/\ last'.op = "handleSaveSession"
           /\ last'.ok
           /\ last'.name = NameWork
           /\ savedSessions = <<>>
           /\ storage = <<>>) =>
              /\ Len(storage') = 1
              /\ storage'[1].name = NameWork
              /\ Len(storage'[1].tabs) =
                    Cardinality(selectedTabs \cap Range(allTabs))
              /\ \A id \in selectedTabs \cap Range(allTabs) :
                    \E j \in 1..Len(storage'[1].tabs) :
                        storage'[1].tabs[j].url = TabUrl(id)
       /\ (/\ last'.op = "handleDeleteSession"
           /\ last'.ok
           /\ Len(savedSessions) = 1) => storage' = <<>>]_vars

C7_Witness ==
    /\ last.op = "handleDeleteSession"
    /\ last.ok
    /\ last.index = 1
    /\ savedSessions = <<>>
    /\ storage = <<>>

(* C8: a rename to a valid name that is persisted changes only the name of *)
(* the session at the index; a rename that is rejected, for an invalid     *)
(* name or a failed persist, leaves the list as it was in memory and in    *)
(* storage.                                                                *)
C8_RenameOrNothing ==
    [][last'.op = "saveSessionNameEdit" =>
          IF last'.ok
          THEN /\ validateSessionName(last'.name).isValid
               /\ Len(savedSessions') = Len(savedSessions)
               /\ \A k \in 1..Len(savedSessions) :
                     /\ savedSessions'[k].tabs = savedSessions[k].tabs
                     /\ savedSessions'[k].date = savedSessions[k].date
                     /\ savedSessions'[k].name =
                           IF k = last'.index THEN Trim(last'.name)
                           ELSE savedSessions[k].name
               /\ storage' = savedSessions'
          ELSE /\ savedSessions' = savedSessions
               /\ storage' = storage]_vars

C9_IsHttpUrl(url) ==
    validateUrl(url).isValid /\ Scheme(url) \in {"http", "https"}

C9_Shown(urls) ==
    [k \in 1..Len(urls) |-> IF urls[k] = <<>> THEN NoUrlFound ELSE urls[k]]

(* C9: restoreSession puts into the valid partition exactly the tabs whose *)
(* URL is syntactically valid with scheme http or https, and every other   *)
(* tab into the invalid partition, each in the original order.             *)
C9_PartitionByScheme ==
    (last.op = "restoreSession" /\ last.incoming # <<>>) =>
        /\ rs.valid = SelectSeq(last.incoming, C9_IsHttpUrl)
        /\ rs.invalid =
              C9_Shown(SelectSeq(last.incoming,
                                 LAMBDA u : ~C9_IsHttpUrl(u)))

C10_LoopTabs == {t \in 1..Len(restoredTabs) : restoredTabs[t].byLoop}

C11_LoopRequests ==
    SelectSeq(browserLog,
              LAMBDA q : q.call = "tabs.create" /\ q.url # ReportUrl(rs.invalid))

(* C11: a tabs.create or tabs.discard of the loop that fails does not end  *)
(* the call: the call goes on with the next valid URL, or with the report  *)
(* page when there is none, and does not fail; a call that is done has     *)
(* asked for a tab for every valid URL after the first, and for the report *)
(* page if there are invalid URLs.                                         *)
C11_TabFailureSkipped ==
    /\ (last.op \in {"tabsCreateAnswered", "tabsDiscardAnswered"}
        /\ ~last.ok) =>
          /\ rs.pc # "failed"
          /\ rs.i <= Len(rs.valid) =>
                /\ rs.pc = "create"
                /\ browserLog[Len(browserLog)] =
                      Request("tabs.create", rs.valid[rs.i], 0)
          /\ (rs.i > Len(rs.valid) /\ rs.invalid # <<>>) =>
                /\ rs.pc = "report"
                /\ browserLog[Len(browserLog)] = ReportRequest(rs)
    /\ (rs.pc = "done" /\ rs.window) =>
          /\ C11_LoopRequests =
                [k \in 1..(Len(rs.valid) - 1) |->
                    Request("tabs.create", rs.valid[k + 1], 0)]
          /\ rs.invalid # <<>> =>
                browserLog[Len(browserLog)] = ReportRequest(rs)

C11_Witness ==
    /\ rs.pc = "done"
    /\ rs.invalid # <<>>
    /\ Len(rs.valid) = 2
    /\ \A t \in 1..Len(restoredTabs) : ~restoredTabs[t].byLoop
    /\ Len(browserLog) = 3

C12_ReportRequests ==
    {k \in 1..Len(browserLog) : browserLog[k].url = ReportUrl(rs.invalid)}

(* C12: a restoreSession call on a session with tabs that has ended has    *)
(* asked for the report page iff the invalid partition is non-empty; the   *)
(* request is the last one of the call, carries the invalid URLs in their  *)
(* order, and is a tabs.create in the new window when there is one and a   *)
(* windows.create otherwise.                                               *)
C12_ReportIffInvalid ==
    /\ (rs.pc \in {"done", "failed"} /\ rs.valid \o rs.invalid # <<>>) =>
          (C12_ReportRequests # {} <=> rs.invalid # <<>>)
    /\ \A k \in C12_ReportRequests :
          /\ k = Len(browserLog)
          /\ rs.invalid # <<>>
          /\ rs.i > Len(rs.valid) \/ ~rs.window
          /\ browserLog[k].call =
                IF rs.window THEN "tabs.create" ELSE "windows.create"

(* C13: restoreSession on a session with zero tabs fails with a            *)
(* SessionError, and no window or tab has been asked for or made.          *)
C13_ZeroTabsFails ==
    (last.op = "restoreSession" /\ last.incoming = <<>>) =>
        /\ rs.pc = "failed"
        /\ rs.error = "SessionError"
        /\ rs.message = "Session has no tabs to restore"
        /\ browserLog = <<>>
        /\ restoredTabs = <<>>

C13_Witness ==
    /\ last.op = "restoreSession"
    /\ last.incoming = <<>>
    /\ rs.pc = "failed"

(* C14: a restoreSession call ends in a SessionError only when both        *)
(* partitions are empty (the zero-tab case included).                      *)
C14_SessionErrorOnlyWhenEmpty ==
    (rs.pc = "failed" /\ rs.error = "SessionError") =>
        (rs.valid = <<>> /\ rs.invalid = <<>>)

(* C15: a run of the filter and sort pipeline (the debounced render after  *)
(* an edit of the search box, a change of the view mode) and an edit of    *)
(* the search box add no id to the selection and remove none, so a         *)
(* selected tab that the search term hides is still selected when the term *)
(* is reverted.                                                            *)
C15_SelectionSurvivesFilter ==
    [][last'.op \in {"searchEdit", "debouncedRender", "applyFiltersAndRender"}
          => selectedTabs' = selectedTabs]_vars

C15_Witness ==
    /\ last.op = "debouncedRender"
    /\ searchInput # <<>>
    /\ \E id \in selectedTabs \cap Range(allTabs) :
          id \notin Range(filteredTabs)

(* C16: handleSelectAll makes every visible tab selected (checked) or      *)
(* unselected (unchecked), and leaves the selection membership of every    *)
(* tab of the live collection that is not visible as it was.               *)
C16_SelectAllOnlyVisible ==
    [][last'.op = "handleSelectAll" =>
          /\ \A id \in Range(filteredTabs) :
                id \in selectedTabs' <=> last'.checked
          /\ \A id \in Range(allTabs) \ Range(filteredTabs) :
                id \in selectedTabs' <=> id \in selectedTabs]_vars

C16_Witness ==
    /\ last.op = "handleSelectAll"
    /\ last.checked
    /\ debouncePending = 0
    /\ filteredTabs # <<>>
    /\ Range(filteredTabs) \subseteq selectedTabs
    /\ \E id \in Range(allTabs) :
          id \notin Range(filteredTabs) /\ id \notin selectedTabs

C17_Rendered ==
    last.op \in {"handleSelectAll", "handleGroupSelectionChange",
                 "handleEscape", "debouncedRender", "applyFiltersAndRender"}

C17_TriState(box, members) ==
    /\ box.checked <=> (members # {} /\ members \subseteq selectedTabs)
    /\ box.indeterminate <=>
          (members \cap selectedTabs # {} /\ ~(members \subseteq selectedTabs))
    /\ ~(box.checked /\ box.indeterminate)

(* C17: the state a render gives the select-all box over the visible tabs, *)
(* and each group box over the tabs of its group, is checked iff the set   *)
(* is non-empty and all its members are selected, and indeterminate iff    *)
(* some but not all members are selected; never both.  The select-all box  *)
(* also has that state after a single tab was toggled.                     *)
C17_TriStateSummary ==
    /\ (C17_Rendered \/ last.op = "handleTabSelectionChange") =>
          C17_TriState(selectAllBox, Range(filteredTabs))
    /\ C17_Rendered =>
          \A domain \in DOMAIN groupBoxes :
              C17_TriState(groupBoxes[domain],
                           Range(groupTabsByDomain(filteredTabs)[domain]))

C17_Witness ==
    /\ C17_Rendered
    /\ selectAllBox.indeterminate
    /\ \E d1 \in DOMAIN groupBoxes, d2 \in DOMAIN groupBoxes :
          /\ groupBoxes[d1].indeterminate
          /\ groupBoxes[d2].checked
          /\ Len(groupTabsByDomain(filteredTabs)[d1]) = 2

(* handleSelectAll checked the box over a non-empty visible set that the   *)
(* render after it shows again                                             *)
C18_ToggledAllOn ==
    /\ last'.op = "handleSelectAll"
    /\ last'.checked
    /\ filteredTabs # <<>>
    /\ filteredTabs' = filteredTabs

(* One visible tab was toggled off while every visible tab was selected *)
C18_ToggledOneOff ==
    /\ last'.op = "handleTabSelectionChange"
    /\ ~last'.checked
    /\ filteredTabs # <<>>
    /\ Range(filteredTabs) \subseteq selectedTabs

(* C18 as stated: for every non-empty visible set, select-all gives        *)
(* {checked: true, indeterminate: false}, and toggling one visible member  *)
(* off after it gives {checked: false, indeterminate: true}.               *)
C18_AsStated ==
    [][/\ C18_ToggledAllOn =>
              selectAllBox' = [checked |-> TRUE, indeterminate |-> FALSE]
       /\ C18_ToggledOneOff =>
              selectAllBox' = [checked |-> FALSE, indeterminate |-> TRUE]]_vars

(* C18, amended: for every non-empty visible set, select-all gives         *)
(* {checked: true, indeterminate: false}; toggling one visible member off  *)
(* after it gives {checked: false, indeterminate: true} when the set has   *)
(* two or more tabs and {checked: false, indeterminate: false} when that   *)
(* member is the only visible tab.                                         *)
C18_ToggleAllThenOneOff ==
    [][/\ C18_ToggledAllOn =>
              selectAllBox' = [checked |-> TRUE, indeterminate |-> FALSE]
       /\ C18_ToggledOneOff =>
              selectAllBox' = [checked |-> FALSE,
                               indeterminate |-> Len(filteredTabs) > 1]]_vars

C18_Witness ==
    /\ last.op = "handleTabSelectionChange"
    /\ ~last.checked
    /\ Len(filteredTabs) > 1
    /\ Range(filteredTabs) \ {last.index} \subseteq selectedTabs
    /\ last.index \in Range(filteredTabs) \ selectedTabs
    /\ selectAllBox = [checked |-> FALSE, indeterminate |-> TRUE]

C19_Members == Range(groupTabsByDomain(filteredTabs)[last'.domain])

(* C19: a toggle of a group checkbox makes every tab rendered in that      *)
(* group selected (checked) or unselected (unchecked) and leaves the       *)
(* selection membership of every other tab as it was.                      *)
C19_GroupToggleOnlyGroup ==
    [][last'.op = "handleGroupSelectionChange" =>
          /\ last'.domain \in DOMAIN groupTabsByDomain(filteredTabs)
          /\ \A id \in C19_Members : id \in selectedTabs' <=> last'.checked
          /\ selectedTabs' \ C19_Members = selectedTabs \ C19_Members]_vars

C19_Witness ==
    /\ last.op = "handleGroupSelectionChange"
    /\ last.checked
    /\ debouncePending = 0
    /\ Len(groupTabsByDomain(filteredTabs)[last.domain]) = 2
    /\ Range(groupTabsByDomain(filteredTabs)[last.domain]) = selectedTabs
    /\ Range(filteredTabs) = Range(allTabs)

C20_SelectedLive == SelectSeq(allTabs, LAMBDA id : id \in selectedTabs)

(* C20: the session that handleSaveSession creates has one SessionTab for  *)
(* each selected tab of the live collection, in the order of the live      *)
(* collection, with the tab's URL and its title (its URL when it has no    *)
(* title), whether or not the tab is in the filtered view.                 *)
C20_SaveReadsLiveCollection ==
    [][(last'.op = "handleSaveSession" /\ last'.saved) =>
          LET tabs == savedSessions'[1].tabs IN
          /\ Len(tabs) = Cardinality(selectedTabs \cap Range(allTabs))
          /\ \A i \in 1..Len(tabs) :
                /\ tabs[i].url = TabUrl(C20_SelectedLive[i])
                /\ tabs[i].title =
                      IF TabTitle(C20_SelectedLive[i]) # <<>>
                      THEN TabTitle(C20_SelectedLive[i])
                      ELSE TabUrl(C20_SelectedLive[i])]_vars

C20_Witness ==
    /\ last.op = "handleSaveSession"
    /\ last.ok
    /\ debouncePending = 0
    /\ Len(savedSessions[1].tabs) = 2
    /\ Len(filteredTabs) = 1
    /\ storage = savedSessions

(* C21: the filter keeps a tab if and only if the time filter is off or    *)
(* the tab has been inactive for at least the threshold, and the search    *)
(* term is empty or is, ignoring case, a substring of the tab's title or   *)
(* of its URL.                                                             *)
C21_CaseInsensitiveSubstring(term, text) ==
    \E k \in 0..(Len(text) - Len(term)) :
        \A i \in 1..Len(term) : Upper(text[k + i]) = Upper(term[i])

C21_Keeps(id, now) ==
    /\ timeFilterSelect = 0 \/ now - TabLastAccessed(id) >= timeFilterSelect
    /\ \/ Trim(searchInput) = <<>>
       \/ C21_CaseInsensitiveSubstring(Trim(searchInput), TabTitle(id))
       \/ C21_CaseInsensitiveSubstring(Trim(searchInput), TabUrl(id))

C21_FilterKeepsExactly ==
    debouncePending = 0 =>
        \A now \in Times : \A id \in Range(allTabs) :
            id \in Range(filteredTabs) <=> C21_Keeps(id, now)

(* The one-hour filter and the term "docs": the tab that is exactly one    *)
(* hour old is kept, the newer tab and the tab titled "Test" are not.      *)
C21_Witness ==
    /\ debouncePending = 0
    /\ timeFilterSelect = ONE_HOUR
    /\ searchInput = <<"d", "o", "c", "s">>
    /\ 1 \in Range(filteredTabs)
    /\ 100 - TabLastAccessed(1) = ONE_HOUR
    /\ {2, 3} \cap Range(filteredTabs) = {}
    /\ {2, 3} \subseteq Range(allTabs)

(* C22: in the grouped view every tab of the filtered, sorted sequence is  *)
(* drawn in exactly one group, the groups are in order of non-increasing   *)
(* tab count, and the tabs of a group are in the order of the sequence.    *)
C22_Place(groups, id) ==
    {<<g, k>> \in (1..Len(groups)) \X (1..Len(filteredTabs)) :
        k <= Len(groups[g].tabs) /\ groups[g].tabs[k] = id}

C22_Position(id) == CHOOSE k \in 1..Len(filteredTabs) : filteredTabs[k] = id

C22_GroupsPartitionFiltered ==
    viewMode = "grouped" =>
        LET groups == renderGroupedTabList(filteredTabs) IN
        /\ \A id \in Range(filteredTabs) :
              Cardinality(C22_Place(groups, id)) = 1
        /\ \A g \in 1..Len(groups) :
              /\ Range(groups[g].tabs) \subseteq Range(filteredTabs)
              /\ g > 1 => Len(groups[g - 1].tabs) >= Len(groups[g].tabs)
              /\ \A i, j \in 1..Len(groups[g].tabs) :
                    i < j => C22_Position(groups[g].tabs[i])
                                < C22_Position(groups[g].tabs[j])

(* C23: for each sort order, sorting the result again gives the result,    *)
(* a sequence that is already in order is returned as it is, tabs with     *)
(* equal keys keep the order they had in the collection, and under         *)
(* lastAccessed the timestamps of the result do not increase.              *)
C23_PlaceInCollection(id) == CHOOSE k \in 1..Len(allTabs) : allTabs[k] = id

C23_InOrder(tabs) ==
    \A i, j \in 1..Len(tabs) :
        i < j => Compare(tabs[i], tabs[j], sortBySelect) <= 0

C23_SortIdempotentStable ==
    LET kept == SelectSeq(allTabs, LAMBDA id : id \in Range(filteredTabs)) IN
    /\ SortTabs(filteredTabs, sortBySelect) = filteredTabs
    /\ C23_InOrder(kept) => filteredTabs = kept
    /\ \A i, j \in 1..Len(filteredTabs) :
          (i < j /\ Compare(filteredTabs[i], filteredTabs[j], sortBySelect) = 0)
              => C23_PlaceInCollection(filteredTabs[i])
                    < C23_PlaceInCollection(filteredTabs[j])
    /\ sortBySelect = "lastAccessed" =>
          \A i, j \in 1..Len(filteredTabs) :
              i < j => TabLastAccessed(filteredTabs[i])
                          >= TabLastAccessed(filteredTabs[j])

(* Sorted by URL: two tabs with the same URL stand in the order of the     *)
(* tab strip, which is not the order of their ids, and the sort moved      *)
(* other tabs.                                                             *)
C23_Witness ==
    /\ sortBySelect = "url"
    /\ filteredTabs # allTabs
    /\ \E i, j \in 1..Len(filteredTabs) :
          /\ i < j
          /\ filteredTabs[i] > filteredTabs[j]
          /\ TabUrl(filteredTabs[i]) = TabUrl(filteredTabs[j])

C25_NamesNoTab ==
    {"ERROR: COULD NOT SAVE ANY TABS", "ERROR: COULD NOT CREATE ZIP FILE",
     "SAVED ${successCount}/${tabs.length} TABS AS ZIP", "SAVED TABS AS ZIP"}

C25_ExportFailFast ==
    last.op = "saveMultipleTabsAsZip" =>
        /\ last.saved => last.violations = <<>>
        /\ last.violations # <<>> =>
              /\ ~last.saved
              /\ last.archive = <<>>
              /\ last.violations = <<last.captures[Len(last.captures)]>>
              /\ last.error \notin C25_NamesNoTab

(* C26: reading the session store does not fail because of a malformed     *)
(* record: the read returns the stored records that pass the shape check,  *)
(* in their stored order, and the empty list when the stored value is not  *)
(* a list.                                                                 *)
C26_WellFormedTab(t) ==
    /\ ~IsNull(t)
    /\ {"url", "title"} \subseteq DOMAIN t
    /\ validateUrl(t.url).isValid

C26_WellFormed(s) ==
    /\ ~IsNull(s)
    /\ {"name", "tabs", "date"} \subseteq DOMAIN s
    /\ s.tabsIsArray
    /\ \A i \in 1..Len(s.tabs) : C26_WellFormedTab(s.tabs[i])

C26_ReadOmitsMalformed ==
    last.op = "getSavedSessions" =>
        /\ last.ok
        /\ last.result =
              IF last.incoming.isArray
              THEN SelectSeq(last.incoming.sessions, C26_WellFormed)
              ELSE <<>>

(* C27: validateSessionName accepts a name if and only if the trimmed name *)
(* is non-empty, has at most 100 characters and holds none of the unsafe   *)
(* characters.  As stated, every string of 101 characters is rejected.     *)
C27_Acceptable(name) ==
    LET trimmed == Trim(name) IN
    /\ trimmed # <<>>
    /\ Len(trimmed) <= 100
    /\ \A i \in 1..Len(trimmed) :
          trimmed[i] \notin {"<", ">", ":", "\"", "/", "\\", "|", "?", "*"}

C27_Examples ==
    /\ last.name = <<>> => ~last.ok
    /\ last.name = NameSlash => ~last.ok
    /\ last.name = NameTrip => last.ok

C27_AsStated ==
    last.op = "validateSessionName" =>
        /\ last.ok <=> C27_Acceptable(last.name)
        /\ C27_Examples
        /\ Len(last.name) = 101 => ~last.ok

(* C27, amended: the strings rejected for their length are those whose     *)
(* trimmed form has 101 characters or more.                                *)
C27_AcceptsIffTrimmedOk ==
    last.op = "validateSessionName" =>
        /\ last.ok <=> C27_Acceptable(last.name)
        /\ C27_Examples
        /\ Len(Trim(last.name)) >= 101 => ~last.ok

(* A string of 101 characters, the last a blank, was accepted *)
C27_Witness ==
    /\ last.op = "validateSessionName"
    /\ Len(last.name) = 101
    /\ last.name[101] = " "
    /\ last.ok

(* C28: getDomain gives a key to every input, by the first rule that       *)
(* applies: "Browser Internal" for the internal schemes, "Local Files"     *)
(* for file URLs, "Browser Pages" for the browser's own pages, the         *)
(* hostname without a leading "www." for any other URL that parses, and    *)
(* "Other" for what does not parse.                                        *)
C28_HostnameKey(u) ==
    LET authority == IF Len(u) >= 3 /\ u[3] = "//"
                     THEN SubSeq(u, 4, Len(u)) ELSE <<>>
        host == SelectSeq(authority, LAMBDA t : t \notin {"/", "page"})
    IN IF host = <<>> THEN ""
       ELSE IF host = <<"www.">> THEN ""
       ELSE host[Len(host)]

C28_Key(u) ==
    IF Len(u) < 2 \/ u[2] # ":" THEN "Other"
    ELSE IF u[1] \in {"chrome", "moz-extension"} THEN "Browser Internal"
    ELSE IF u[1] = "file" THEN "Local Files"
    ELSE IF u[1] = "about" THEN "Browser Pages"
    ELSE C28_HostnameKey(u)

C28_AsStated ==
    last.op = "getDomain" => last.domain = C28_Key(last.incoming)

(* C28, amended: the empty string, which is no URL, has the key "Unknown"; *)
(* every other input has the key of the first rule that applies.           *)
C28_TotalRulesInOrder ==
    last.op = "getDomain" =>
        last.domain = IF last.incoming = <<>> THEN "Unknown"
                      ELSE C28_Key(last.incoming)

(* A URL with the host www.a.test and a path has the key a.test *)
C28_Witness ==
    /\ last.op = "getDomain"
    /\ last.incoming = <<"https", ":", "//", "www.", "a.test", "/", "page">>
    /\ last.domain = "a.test"

(* C29: when refreshes overlap, the result of a refresh that was started   *)
(* before another never replaces what that other has installed: a refresh  *)
(* that completes right after one started later leaves the tab collection  *)
(* and the session list as they are.                                       *)
C29_SupersededRefreshIgnored ==
    [][(/\ last.op = "loadInitialData" /\ last.ok
        /\ last'.op = "loadInitialData" /\ last'.ok
        /\ last'.index < last.index) =>
          /\ allTabs' = allTabs
          /\ savedSessions' = savedSessions]_vars

(* C30: a change of the session list that was persisted is not lost: the   *)
(* sessions in the store stay in it when another session is created, and   *)
(* the list a refresh installs is the list in the store.                   *)
C30_PersistedMutationKept ==
    [][/\ (last'.op = "handleSaveSession" /\ last'.saved /\ last'.ok) =>
              /\ Len(storage') > Len(storage)
              /\ SubSeq(storage', Len(storage') - Len(storage) + 1,
                        Len(storage')) = storage
       /\ (last'.op = "loadInitialData" /\ last'.ok) =>
              savedSessions' = getSavedSessions(storage)]_vars

(* C31: an armed close confirmation stays armed for the whole timeout of   *)
(* the invocation that armed it and is disarmed when that timeout elapses. *)
(* Timers have one delay and fire in the order they were set, and the      *)
(* invocation that armed the confirmation set the newest one: the timer    *)
(* that disarms an armed confirmation is the only timer pending.           *)
C31_ArmedForFullTimeout ==
    [][(last'.op = "closeTimerFires" /\ closeConfirmation) =>
          timers = 1]_vars

(* What the pipeline gives for the live collection under a search text, a  *)
(* time filter and a sort order                                            *)
C32_Run(text, timeFilter, sortBy) ==
    applyFilters(allTabs,
                 [timeFilter |-> timeFilter,
                  searchTerm |-> ToUpperCase(Trim(text)),
                  sortBy |-> sortBy], 100)

(* C32: an edit of the search text runs no pipeline and leaves exactly one *)
(* run scheduled, however many edits came before it within the delay; the  *)
(* scheduled run uses the search text as the last edit left it and leaves  *)
(* no run scheduled; a change of the time filter, the sort order or the    *)
(* view mode runs the pipeline in the same step, with the new value.       *)
C32_DebouncedNotDropdowns ==
    [][/\ searchInput' # searchInput =>
              /\ filteredTabs' = filteredTabs
              /\ debouncePending' = 1
       /\ last'.op = "debouncedRender" =>
              /\ debouncePending' = 0
              /\ searchInput' = searchInput
              /\ filteredTabs' =
                    C32_Run(searchInput, timeFilterSelect, sortBySelect)
       /\ selectVars' # selectVars =>
              /\ last'.op = "applyFiltersAndRender"
              /\ debouncePending' = debouncePending
              /\ filteredTabs' =
                    C32_Run(searchInput, timeFilterSelect', sortBySelect')]_vars

(* Two edits within the delay, the last one leaving "docs", and then the   *)
(* run: the view holds the tab titled "Docs" and not the other one.        *)
C32_Witness ==
    /\ last.op = "debouncedRender"
    /\ last.checked
    /\ debouncePending = 0
    /\ searchInput = <<"d", "o", "c", "s">>
    /\ filteredTabs = <<1>>
    /\ Len(allTabs) > 1

(* C33: bulk bookmarking goes on past a bookmark that could not be created *)
(* and succeeds, and the count it reports to the user is the number of     *)
(* tabs that were bookmarked.                                              *)
C33_BookmarkCountsBookmarked ==
    [][(last'.op = "handleBookmarkTabs" /\ last'.ok
           /\ last'.captures # <<>>) =>
          /\ \A id \in Range(last'.captures) :
                (id \notin Range(last'.violations)
                    /\ validateUrl(TabUrl(id)).isValid
                    /\ TabUrl(id) # <<>> /\ TabTitle(id) # <<>>)
                   => id \in Range(last'.bookmarks)
          /\ last'.reported = Len(last'.bookmarks)]_vars

(* C34: every restoreSession call that was made resolves or rejects *)
C34_RestoreTerminates ==
    [](rs.pc # "idle" => <>(rs.pc \in {"done", "failed"}))

(* C35: between two session operations the in-memory session list is the  *)
(* persisted one, and an operation whose persist step failed has left the  *)
(* in-memory list as it was.                                               *)
C35_MemoryEqualsStore ==
    [][/\ savedSessions = storage => savedSessions' = storage'
       /\ (last'.saved /\ ~last'.ok) => savedSessions' = savedSessions]_vars

(* C36: a removal request is made only while the confirmation is armed and *)
(* names the tabs selected then, and the selection is what it was at the   *)
(* arming: no step changes the selection and leaves the confirmation       *)
(* armed, but for the clearing of the selection by a close that succeeded, *)
(* and with an empty selection no request is made.                         *)
C36_CloseRemovesArmedSelection ==
    [][/\ Len(closing') > Len(closing) =>
              /\ closeConfirmation
              /\ selectedTabs # {}
              /\ closing'[Len(closing')] = selectedTabs
       /\ (closeConfirmation /\ closeConfirmation'
              /\ selectedTabs' # selectedTabs) =>
              /\ last'.op = "closeTabsAnswered"
              /\ selectedTabs' = {}]_vars

(* The confirmation was armed twice and the second arming was confirmed:   *)
(* the request names both selected tabs.                                   *)
C36_Witness ==
    /\ last.op = "handleCloseTabs"
    /\ last.armed
    /\ timers = 2
    /\ Cardinality(last.issued) = 2
    /\ last.issued = selectedTabs
    /\ closing = <<last.issued>>

(* C37: a removal request is made only when no removal request is waiting  *)
(* for the browser's answer.                                               *)
C37_OneRequestPerArming ==
    [][Len(closing') > Len(closing) => closing = <<>>]_vars

(* C38: the store holds what the last accepted saveSessions wrote, and a   *)
(* getSavedSessions then returns the sessions of the store, all of them    *)
(* and in their order.                                                     *)
C38_SaveReadRoundTrip ==
    last.op = "getSavedSessions" => (last.ok /\ last.result = storage)

(* C39: a loadInitialData whose reads failed leaves the live collection,   *)
(* the filtered view, the selection and the session list as they were, and *)
(* ends; after it the popup takes a tabsChanged message and an edit of the *)
(* search text as before.                                                  *)
C39_FailedRefreshChangesNothing ==
    /\ []((last.op = "loadInitialData" /\ ~last.ok) =>
             (ENABLED LoadInitialDataStart /\ ENABLED SearchEdit))
    /\ [][(last'.op = "loadInitialData" /\ ~last'.ok) =>
             /\ allTabs' = allTabs
             /\ filteredTabs' = filteredTabs
             /\ selectedTabs' = selectedTabs
             /\ savedSessions' = savedSessions
             /\ Len(refreshes') = Len(refreshes) - 1]_vars

(* The refresh failed after a tab had been closed in the browser: the      *)
(* collection still holds it, the search still hides a tab and the         *)
(* selection is still there.                                               *)
C39_Witness ==
    /\ last.op = "loadInitialData"
    /\ ~last.ok
    /\ Range(allTabs) # browserTabs
    /\ Len(filteredTabs) < Len(allTabs)
    /\ selectedTabs # {}
    /\ savedSessions # <<>>

(* C40: the names of the stored sessions are pairwise distinct, the store  *)
(* having started so, after every create, rename and import.               *)
C40_SessionNamesUnique ==
    \A i, j \in 1..Len(storage) :
        i # j => storage[i].name # storage[j].name

====
